---- MODULE Spec2Model ----
(***************************************************************************)
(* Model of the data generation engine (services/dataGenerator.ts, class   *)
(* DataGenerator) of the Lambda performance testing application.           *)
(*                                                                         *)
(* Conventions                                                             *)
(*  - A JavaScript value is a record [k, n, f, s]: k is its typeof-like    *)
(*    kind, n an integer, f a numerator over Modulus (the fractional part  *)
(*    of a number) and s the characters of a string.                       *)
(*  - A string is the sequence of its characters.                          *)
(*  - A draw of the seeded generator is currentSeed / Modulus; the model   *)
(*    keeps the numerator and computes with exact rationals.               *)
(*  - Time is counted in days, not milliseconds (TLC integers are 32 bit). *)
(***************************************************************************)
EXTENDS Integers, Sequences, FiniteSets, TLC

VARIABLES
    state,        \* DataGenerator.state
    currentSeed,  \* the variable closed over by DataGenerator.seededRandom
    clock,        \* the wall clock read by Date.now() and new Date()
    calls,        \* number of engine calls made so far (bounded by MaxCalls)
    last,         \* the most recent call: its arguments, the state before it, its outcome
    prev,         \* the generateBatch call before `last` (SpecRepeat)
    twin,         \* a second engine, constructed independently (SpecTwin)
    pager,        \* a client that follows nextOffset from offset 0 (SpecPaginate)
    vcall,        \* one call of the static validateSchema (SpecValidate)
    requests,     \* HTTP requests in flight and their responses (SpecApi)
    latency,      \* one sample of the latency middleware (SpecLatency)
    injection,    \* one request in the error injection middleware (SpecErrors)
    server,       \* the middleware chain of the server and one request through it (SpecServer)
    client        \* one request of TestApiClient and its retries (SpecClient)

vars == <<state, currentSeed, clock, calls, last, prev, twin, pager, vcall,
          requests, latency, injection, server, client>>

----------------------------------------------------------------------------
(* Bounds of the model *)

MaxTotal == 2
MaxCalls == 2
MaxClock == 1

----------------------------------------------------------------------------
(* JavaScript values *)

Undefined == [k |-> "undefined", n |-> 0, f |-> 0, s |-> <<>>]
Null == [k |-> "null", n |-> 0, f |-> 0, s |-> <<>>]
Bool(b) == [k |-> "boolean", n |-> IF b THEN 1 ELSE 0, f |-> 0, s |-> <<>>]
Num(i) == [k |-> "number", n |-> i, f |-> 0, s |-> <<>>]
Frac(i, fr) == [k |-> "number", n |-> i, f |-> fr, s |-> <<>>]
Str(chars) == [k |-> "string", n |-> 0, f |-> 0, s |-> chars]
\* The ISO-8601 rendering of the instant t, and a date string that parses to t.
DateStr(t) == [k |-> "string", n |-> t, f |-> 0, s |-> <<"#", "d", "a", "t", "e">>]

IsNumber(v) == v.k = "number"
IsString(v) == v.k = "string"
\* ToBoolean
Truthy(v) ==
    CASE v.k = "undefined" -> FALSE
      [] v.k = "null" -> FALSE
      [] v.k = "boolean" -> v.n = 1
      [] v.k = "number" -> ~(v.n = 0 /\ v.f = 0)
      [] v.k = "string" -> v.s # <<>>
      [] OTHER -> TRUE

Min(a, b) == IF a <= b THEN a ELSE b

----------------------------------------------------------------------------
(* Number.prototype.toString and String.prototype.padStart / slice *)

HexDigits == <<"0", "1", "2", "3", "4", "5", "6", "7", "8", "9",
               "a", "b", "c", "d", "e", "f">>
DecDigits == <<"0", "1", "2", "3", "4", "5", "6", "7", "8", "9">>

RECURSIVE Digits(_, _, _)
Digits(n, radix, digits) ==
    IF n < radix THEN <<digits[n + 1]>>
    ELSE Digits(n \div radix, radix, digits) \o <<digits[(n % radix) + 1]>>

\* n.toString(16) for an integer n
ToHex(n) == IF n < 0 THEN <<"-">> \o Digits(-n, 16, HexDigits) ELSE Digits(n, 16, HexDigits)
\* n.toString() for an integer n
ToDec(n) == IF n < 0 THEN <<"-">> \o Digits(-n, 10, DecDigits) ELSE Digits(n, 10, DecDigits)

RECURSIVE PadStart(_, _, _)
PadStart(str, len, fill) ==
    IF Len(str) >= len THEN str ELSE PadStart(<<fill>> \o str, len, fill)

\* str.slice(from, to) for 0 <= from <= to
Slice(str, from, to) == SubSeq(str, from + 1, Min(to, Len(str)))

----------------------------------------------------------------------------
(* The seeded generator: currentSeed = (currentSeed * 9301 + 49297) % 233280 *)

Modulus == 233280
Multiplier == 9301
Increment == 49297

\* (a * Multiplier) mod Modulus for a >= 0, without leaving 32 bits:
\* Multiplier = 93 * 100 + 1
MulMod(a) == ((((a % Modulus) * (Multiplier \div 100)) % Modulus) * 100
              + (a % Modulus) * (Multiplier % 100)) % Modulus

\* JavaScript's %: the remainder has the sign of the dividend
\* a * Multiplier + Increment is negative exactly when a < -(Increment \div Multiplier)
SeededNext(cs) ==
    IF cs >= -(Increment \div Multiplier)
    THEN IF cs >= 0 THEN (MulMod(cs) + Increment) % Modulus
                    ELSE (cs * Multiplier + Increment) % Modulus
    ELSE -((MulMod(-cs) - Increment) % Modulus)

\* createSeededRandom(seed): the closure's initial currentSeed
createSeededRandom(seed) == seed

\* Math.floor(r * n) for the draw r = cs / Modulus and an integer n >= 0
FloorMul(cs, n) == (cs * n) \div Modulus

----------------------------------------------------------------------------
(* Field definitions and schemas                                           *)
(* type, pattern and format are only ever compared with literals: they are *)
(* TLA+ strings, "" standing for an absent (or empty) property.  A schema  *)
(* is the sequence Object.entries(schema) of [name, def] pairs.            *)

NoConstraints ==
    [has |-> FALSE, min |-> Undefined, max |-> Undefined, length |-> Undefined,
     pattern |-> "", hasEnum |-> FALSE, enum |-> <<>>, format |-> ""]
Constraints == [NoConstraints EXCEPT !.has = TRUE]
MinMax(lo, hi) == [Constraints EXCEPT !.min = lo, !.max = hi]
EnumOf(values) == [Constraints EXCEPT !.hasEnum = TRUE, !.enum = values]

FieldDef(type, required, default, constraints) ==
    [isNull |-> FALSE, type |-> type, required |-> required, default |-> default,
     constraints |-> constraints]
NullDef == [FieldDef("", Undefined, Undefined, NoConstraints) EXCEPT !.isNull = TRUE]
Field(name, def) == [name |-> name, def |-> def]

----------------------------------------------------------------------------
(* Outcome of a generator step: a value and the generator's new state, or  *)
(* an exception (the draws made before it stay made)                       *)

Ret(v, cs) == [v |-> v, cs |-> cs, threw |-> FALSE]
Throw(cs) == [v |-> Undefined, cs |-> cs, threw |-> TRUE]

\* generateDeterministicUuid(seed)
generateDeterministicUuid(seed) ==
    LET seedStr == PadStart(ToHex(seed), 8, "0")
    IN  Str(Slice(seedStr, 0, 8) \o <<"-">> \o Slice(seedStr, 0, 4) \o <<"-", "4">>
            \o Slice(seedStr, 1, 4) \o <<"-", "8">> \o Slice(seedStr, 2, 5) \o <<"-">>
            \o Slice(seedStr, 0, 12))

\* generateId(index)
generateId(seed, index) == generateDeterministicUuid(seed + index)

Chars == <<"A", "B", "C", "D", "E", "F", "G", "H", "I", "J", "K", "L", "M",
           "N", "O", "P", "Q", "R", "S", "T", "U", "V", "W", "X", "Y", "Z",
           "a", "b", "c", "d", "e", "f", "g", "h", "i", "j", "k", "l", "m",
           "n", "o", "p", "q", "r", "s", "t", "u", "v", "w", "x", "y", "z",
           "0", "1", "2", "3", "4", "5", "6", "7", "8", "9">>

\* the loop of generateString: one draw per character; charAt of an index
\* outside the alphabet (a negative draw) is the empty string
RECURSIVE RandomChars(_, _)
RandomChars(length, cs) ==
    LET charAt(idx) == IF idx >= 0 /\ idx < Len(Chars) THEN <<Chars[idx + 1]>> ELSE <<>>
        Cons(ch, rest) == [str |-> ch \o rest.str, cs |-> rest.cs]
        Draw(c1) == Cons(charAt(FloorMul(c1, Len(Chars))), RandomChars(length - 1, c1))
    IN  IF length <= 0 THEN [str |-> <<>>, cs |-> cs]
        ELSE Draw(SeededNext(cs))

DefaultStringLength == 10
EmailUserLength == 8
Domains == << <<"e", "x", "a", "m", "p", "l", "e", ".", "c", "o", "m">>,
              <<"t", "e", "s", "t", ".", "o", "r", "g">>,
              <<"d", "e", "m", "o", ".", "n", "e", "t">> >>
UndefinedText == <<"u", "n", "d", "e", "f", "i", "n", "e", "d">>

\* the length expression of generateString: [length, cs]
StringLength(c, cs) ==
    IF c.has /\ Truthy(c.length) THEN [length |-> c.length.n, cs |-> cs]
    ELSE IF c.has /\ Truthy(c.min) /\ Truthy(c.max) /\ IsNumber(c.min) /\ IsNumber(c.max)
         THEN LET Draw(c1) == [length |-> FloorMul(c1, c.max.n - c.min.n) + c.min.n,
                                   cs |-> c1]
              IN  Draw(SeededNext(cs))
         ELSE [length |-> DefaultStringLength, cs |-> cs]

RECURSIVE generateString(_, _)

\* generateStringFromPattern(pattern, length)
generateStringFromPattern(pattern, length, cs) ==
    LET domainAt(idx) == IF idx >= 0 /\ idx < Len(Domains) THEN Domains[idx + 1]
                         ELSE UndefinedText
        Email(domain, username) == Ret(Str(username.v.s \o <<"@">> \o domain), username.cs)
        \* the domain is drawn first, then the username's characters
        DrawDomain(c1) ==
            Email(domainAt(FloorMul(c1, Len(Domains))),
                  generateString([Constraints EXCEPT !.length = Num(EmailUserLength)], c1))
        Phone(area, exchange, number, c3) ==
            Ret(Str(<<"+", "1">> \o ToDec(area) \o ToDec(exchange) \o ToDec(number)), c3)
        DrawNumber(area, exchange, c3) == Phone(area, exchange, FloorMul(c3, 9000) + 1000, c3)
        DrawExchange(area, c2) == DrawNumber(area, FloorMul(c2, 900) + 100, SeededNext(c2))
        DrawArea(c1) == DrawExchange(FloorMul(c1, 900) + 100, SeededNext(c1))
    IN  CASE pattern = "email" -> DrawDomain(SeededNext(cs))
          [] pattern = "phone" -> DrawArea(SeededNext(cs))
          [] OTHER -> generateString([Constraints EXCEPT !.length = Num(length)], cs)

\* generateString(constraints)
generateString(c, cs) ==
    LET Result(r) == Ret(Str(r.str), r.cs)
        WithLength(len) ==
            IF c.has /\ c.pattern # ""
            THEN generateStringFromPattern(c.pattern, len.length, len.cs)
            ELSE Result(RandomChars(len.length, len.cs))
    IN  WithLength(StringLength(c, cs))

DefaultMin == 0
DefaultMax == 1000

\* generateNumber(constraints)
generateNumber(c, cs) ==
    LET min == IF c.has /\ IsNumber(c.min) THEN c.min.n ELSE DefaultMin
        max == IF c.has /\ IsNumber(c.max) THEN c.max.n ELSE DefaultMax
        Value(scaled, c1) ==
            IF c.has /\ c.format = "integer"
            THEN Ret(Num((scaled \div Modulus) + min), c1)
            ELSE Ret(Frac((scaled \div Modulus) + min, scaled % Modulus), c1)
        Draw(c1) == Value(c1 * (max - min), c1)
    IN  Draw(SeededNext(cs))

YearSpan == 365

\* new Date(t): the time value is truncated towards zero
TimeClip(whole, part) == IF whole < 0 /\ part # 0 THEN whole + 1 ELSE whole

\* generateIso8601Date(constraints); `now` is new Date()
generateIso8601Date(c, cs, now) ==
    LET minDate == IF c.has /\ Truthy(c.min) /\ IsString(c.min) THEN c.min.n ELSE now - YearSpan
        maxDate == IF c.has /\ Truthy(c.max) /\ IsString(c.max) THEN c.max.n ELSE now
        Value(scaled, c1) ==
            Ret(DateStr(TimeClip(minDate + (scaled \div Modulus), scaled % Modulus)), c1)
        Draw(c1) == Value(c1 * (maxDate - minDate), c1)
    IN  Draw(SeededNext(cs))

\* generateEnum(constraints)
generateEnum(c, cs) ==
    IF ~c.has \/ ~c.hasEnum \/ Len(c.enum) = 0 THEN Throw(cs)
    ELSE LET Value(enumIndex, c1) ==
                 Ret(IF enumIndex >= 0 /\ enumIndex < Len(c.enum) THEN c.enum[enumIndex + 1]
                     ELSE Undefined, c1)
             Draw(c1) == Value(FloorMul(c1, Len(c.enum)), c1)
         IN  Draw(SeededNext(cs))

\* the switch of generateFieldValue
SynthesizeByType(fieldDef, index, cs, seed, now) ==
    CASE fieldDef.type = "uuid" -> Ret(generateDeterministicUuid(seed + index), cs)
      [] fieldDef.type = "string" -> generateString(fieldDef.constraints, cs)
      [] fieldDef.type = "number" -> generateNumber(fieldDef.constraints, cs)
      [] fieldDef.type = "boolean" ->
           LET Draw(c1) == Ret(Bool(c1 * 2 < Modulus), c1) IN Draw(SeededNext(cs))
      [] fieldDef.type = "iso8601" -> generateIso8601Date(fieldDef.constraints, cs, now)
      [] fieldDef.type = "enum" -> generateEnum(fieldDef.constraints, cs)
      [] OTHER -> Throw(cs)

\* generateFieldValue returning every default it finds, without the draw
generateFieldValueAlwaysDefault(fieldDef, index, cs, seed, now) ==
    IF fieldDef.isNull THEN Throw(cs)
    ELSE IF fieldDef.default.k # "undefined" THEN Ret(fieldDef.default, cs)
    ELSE SynthesizeByType(fieldDef, index, cs, seed, now)

\* generateFieldValue(fieldDef, index)
generateFieldValue(fieldDef, index, cs, seed, now) ==
    IF fieldDef.isNull THEN Throw(cs)
    ELSE LET required == IF fieldDef.required.k = "undefined" THEN TRUE
                         ELSE Truthy(fieldDef.required)
             \* the draw is made only when the field is required
             Draw(useDefault, c1) ==
                 IF useDefault THEN Ret(fieldDef.default, c1)
                 ELSE SynthesizeByType(fieldDef, index, c1, seed, now)
             Required(c1) == Draw(c1 * 10 < Modulus, c1)
         IN  IF fieldDef.default.k # "undefined"
             THEN IF ~required THEN Ret(fieldDef.default, cs)
                  ELSE Required(SeededNext(cs))
             ELSE Draw(FALSE, cs)

----------------------------------------------------------------------------
(* Records and batches *)

FieldNames(schema) == {schema[j].name : j \in 1..Len(schema)}

\* the loop of generateRecord over Object.entries(schema), from entry j on:
\* the values in entry order, the generator's state, and whether a field threw
RECURSIVE GenerateFields(_, _, _, _, _, _)
GenerateFields(schema, j, index, cs, seed, now) ==
    LET Cons(one, rest) ==
            [vals |-> <<one.v>> \o rest.vals, cs |-> rest.cs, threw |-> rest.threw]
        Assign(one) ==
            IF one.threw THEN [vals |-> <<>>, cs |-> one.cs, threw |-> TRUE]
            ELSE Cons(one, GenerateFields(schema, j + 1, index, one.cs, seed, now))
    IN  IF j > Len(schema) THEN [vals |-> <<>>, cs |-> cs, threw |-> FALSE]
        ELSE Assign(generateFieldValue(schema[j].def, index, cs, seed, now))

\* generateRecord(index): record = { id: generateId(index) }, then
\* record[fieldName] = value for every schema entry (an entry named id
\* overwrites the generated id)
generateRecord(st, cs, index, now) ==
    LET record(id, vals) ==
            [name \in {"id"} \cup FieldNames(st.schema) |->
               IF name \in FieldNames(st.schema)
               THEN vals[CHOOSE j \in 1..Len(st.schema) : st.schema[j].name = name]
               ELSE id]
        Assign(id, fields) ==
            IF fields.threw THEN [record |-> <<>>, cs |-> fields.cs, threw |-> TRUE]
            ELSE [record |-> record(id, fields.vals), cs |-> fields.cs, threw |-> FALSE]
    IN  Assign(generateId(st.seed, index),
               GenerateFields(st.schema, 1, index, cs, st.seed, now))

\* the for loop of generateBatch: records i .. endIndex - 1
RECURSIVE GenerateRange(_, _, _, _, _)
GenerateRange(st, cs, i, endIndex, now) ==
    LET Cons(one, rest) ==
            [records |-> <<one.record>> \o rest.records, cs |-> rest.cs, threw |-> rest.threw]
        Push(one) ==
            IF one.threw THEN [records |-> <<>>, cs |-> one.cs, threw |-> TRUE]
            ELSE Cons(one, GenerateRange(st, one.cs, i + 1, endIndex, now))
    IN  IF i >= endIndex THEN [records |-> <<>>, cs |-> cs, threw |-> FALSE]
        ELSE Push(generateRecord(st, cs, i, now))

\* generateBatch with hasMore computed as endIndex <= totalRecords
generateBatchOffByOne(st, cs, offset, limit, now) ==
    LET startIndex == offset
        endIndex == Min(startIndex + limit, st.totalRecords)
        hasMore == endIndex <= st.totalRecords
        Response(range, nextOffset) ==
            IF range.threw
            THEN [threw |-> TRUE, records |-> <<>>, hasMore |-> FALSE,
                  nextOffset |-> Undefined, totalCount |-> 0, cs |-> range.cs]
            ELSE [threw |-> FALSE, records |-> range.records, hasMore |-> hasMore,
                  nextOffset |-> IF Truthy(nextOffset) THEN nextOffset ELSE Undefined,
                  totalCount |-> st.totalRecords, cs |-> range.cs]
    IN  Response(GenerateRange(st, cs, startIndex, endIndex, now),
                 IF hasMore THEN Str(ToDec(endIndex)) ELSE Undefined)

\* generateBatch(offset, limit): what it returns (or that it threw) and the
\* generator state it leaves behind
generateBatch(st, cs, offset, limit, now) ==
    LET startIndex == offset
        endIndex == Min(startIndex + limit, st.totalRecords)
        hasMore == endIndex < st.totalRecords
        Response(range, nextOffset) ==
            IF range.threw
            THEN [threw |-> TRUE, records |-> <<>>, hasMore |-> FALSE,
                  nextOffset |-> Undefined, totalCount |-> 0, cs |-> range.cs]
            ELSE [threw |-> FALSE, records |-> range.records, hasMore |-> hasMore,
                  nextOffset |-> IF Truthy(nextOffset) THEN nextOffset ELSE Undefined,
                  totalCount |-> st.totalRecords, cs |-> range.cs]
    IN  Response(GenerateRange(st, cs, startIndex, endIndex, now),
                 IF hasMore THEN Str(ToDec(endIndex)) ELSE Undefined)

----------------------------------------------------------------------------
(* Construction, reset, updateSchema *)

\* a GenerationConfig / Partial<GenerationConfig>: each property is a
\* JavaScript value (Undefined when absent), the schema a [has, v] pair
Config(totalRecords, schema, seed) ==
    [totalRecords |-> totalRecords, hasSchema |-> TRUE, schema |-> schema, seed |-> seed]
PartialConfig(totalRecords, seed) ==
    [totalRecords |-> totalRecords, hasSchema |-> FALSE, schema |-> <<>>, seed |-> seed]

\* constructor(config): this.state
constructState(config, now) ==
    [currentOffset |-> 0,
     totalRecords |-> config.totalRecords.n,
     generatedCount |-> 0,
     schema |-> config.schema,
     seed |-> IF Truthy(config.seed) THEN config.seed.n ELSE now]

\* reset that assigns config.schema whether or not it is provided
resetStateAssignsSchema(st, config) ==
    [currentOffset |-> 0,
     totalRecords |-> IF config.totalRecords.k # "undefined" THEN config.totalRecords.n
                      ELSE st.totalRecords,
     generatedCount |-> 0,
     schema |-> config.schema,
     seed |-> IF config.seed.k # "undefined" THEN config.seed.n ELSE st.seed]

\* reset(config): this.state afterwards
resetState(st, config) ==
    [currentOffset |-> 0,
     totalRecords |-> IF config.totalRecords.k # "undefined" THEN config.totalRecords.n
                      ELSE st.totalRecords,
     generatedCount |-> 0,
     schema |-> IF config.hasSchema THEN config.schema ELSE st.schema,
     seed |-> IF config.seed.k # "undefined" THEN config.seed.n ELSE st.seed]

\* reset(config): the generator afterwards
resetRandom(cs, config) ==
    IF config.seed.k # "undefined" THEN createSeededRandom(config.seed.n) ELSE cs

\* updateSchema(schema): this.state afterwards
updateSchemaState(st, schema) == [st EXCEPT !.schema = schema]

\* getState(): a copy of this.state
getState(st) == st

----------------------------------------------------------------------------
(* validateSchema *)

\* a > b as JavaScript decides it for two numbers, or for two date strings
\* of one format (lexicographic order is chronological order); a comparison
\* of a number with a non-numeric string is false
JsGreater(a, b) ==
    CASE IsNumber(a) /\ IsNumber(b) -> a.n > b.n \/ (a.n = b.n /\ a.f > b.f)
      [] IsString(a) /\ IsString(b) -> a.n > b.n
      [] OTHER -> FALSE

ValidTypes == {"uuid", "string", "number", "boolean", "iso8601", "enum"}

\* an entry of the errors list: the message names the field and the rule
Error(fieldName, rule) == [field |-> fieldName, rule |-> rule]

\* the constraint checks with min >= max rejected
constraintErrorsStrict(fieldName, c) ==
    (IF c.min.k # "undefined" /\ c.max.k # "undefined"
        /\ (JsGreater(c.min, c.max) \/ c.min = c.max)
     THEN <<Error(fieldName, "min constraint cannot be greater than max")>> ELSE <<>>)
    \o
    (IF c.length.k # "undefined" /\ c.length.n < 0
     THEN <<Error(fieldName, "length constraint cannot be negative")>> ELSE <<>>)

\* the constraint checks of one field (min > max, length < 0)
constraintErrors(fieldName, c) ==
    (IF c.min.k # "undefined" /\ c.max.k # "undefined" /\ JsGreater(c.min, c.max)
     THEN <<Error(fieldName, "min constraint cannot be greater than max")>> ELSE <<>>)
    \o
    (IF c.length.k # "undefined" /\ c.length.n < 0
     THEN <<Error(fieldName, "length constraint cannot be negative")>> ELSE <<>>)

\* the body of validateSchema's loop for one [fieldName, fieldDef] entry
validateField(fieldName, fieldDef) ==
    IF fieldDef.isNull THEN [threw |-> TRUE, errors |-> <<>>]
    ELSE IF fieldDef.type = ""
    THEN [threw |-> FALSE, errors |-> <<Error(fieldName, "missing type")>>]
    ELSE [threw |-> FALSE,
          errors |->
            (IF fieldDef.type \notin ValidTypes
             THEN <<Error(fieldName, "has invalid type")>> ELSE <<>>)
            \o
            (IF fieldDef.type = "enum"
                /\ (~fieldDef.constraints.has \/ ~fieldDef.constraints.hasEnum
                    \/ Len(fieldDef.constraints.enum) = 0)
             THEN <<Error(fieldName, "must have enum constraint with values")>> ELSE <<>>)
            \o
            (IF fieldDef.constraints.has
             THEN constraintErrors(fieldName, fieldDef.constraints) ELSE <<>>)]

RECURSIVE ValidateEntries(_, _)
ValidateEntries(entries, j) ==
    LET Cons(one, rest) == [threw |-> rest.threw, errors |-> one.errors \o rest.errors]
        Push(one) == IF one.threw THEN one ELSE Cons(one, ValidateEntries(entries, j + 1))
    IN  IF j > Len(entries) THEN [threw |-> FALSE, errors |-> <<>>]
        ELSE Push(validateField(entries[j].name, entries[j].def))

\* an argument of validateSchema: any JavaScript value; an object carries
\* its entries, the other kinds modelled are the empty ones ('', 0, false, [])
ObjectValue(entries) == [kind |-> "object", entries |-> entries]
OtherValue(kind) == [kind |-> kind, entries |-> <<>>]

\* validateSchema(schema): Object.entries(null | undefined) throws
validateSchema(schema) ==
    LET Result(r) ==
            IF r.threw THEN [threw |-> TRUE, valid |-> FALSE, errors |-> <<>>]
            ELSE [threw |-> FALSE, valid |-> Len(r.errors) = 0, errors |-> r.errors]
    IN  IF schema.kind \in {"null", "undefined"}
        THEN [threw |-> TRUE, valid |-> FALSE, errors |-> <<>>]
        ELSE Result(ValidateEntries(schema.entries, 1))

----------------------------------------------------------------------------
(* Inputs of the model *)

Active == Str(<<"a", "c", "t", "i", "v", "e">>)
Inactive == Str(<<"i", "n", "a", "c", "t", "i", "v", "e">>)
True == Bool(TRUE)
False == Bool(FALSE)

\* { id: {type:'uuid', required:true},
\*   status: {type:'enum', required:true, constraints:{enum:['active','inactive']}} }
SchemaScenario ==
    <<Field("id", FieldDef("uuid", True, Undefined, NoConstraints)),
      Field("status", FieldDef("enum", True, Undefined, EnumOf(<<Active, Inactive>>)))>>
\* { flag: {type:'boolean'} }
SchemaFlag == <<Field("flag", FieldDef("boolean", Undefined, Undefined, NoConstraints))>>
\* {}
SchemaNoFields == <<>>
\* { emptyEnum: {type:'enum', constraints:{enum:[]}} }
SchemaEmptyEnum ==
    <<Field("emptyEnum", FieldDef("enum", Undefined, Undefined, EnumOf(<<>>)))>>
\* { field1: {type:'invalid_type'} }
SchemaBadType ==
    <<Field("field1", FieldDef("invalid_type", Undefined, Undefined, NoConstraints))>>
\* { id: {type:'boolean'} }
SchemaIdBoolean == <<Field("id", FieldDef("boolean", Undefined, Undefined, NoConstraints))>>
\* { isActive: {type:'boolean', required:false, default:true},
\*   status: {type:'enum', constraints:{enum:['active','inactive']}, default:'active'} }
SchemaDefaults ==
    <<Field("isActive", FieldDef("boolean", False, True, NoConstraints)),
      Field("status", FieldDef("enum", Undefined, Active, EnumOf(<<Active, Inactive>>)))>>
\* { name: {type:'string', constraints:{length:2}},
\*   age: {type:'number', constraints:{min:18, max:100, format:'integer'}},
\*   score: {type:'number', constraints:{min:0, max:100}},
\*   createdAt: {type:'iso8601'} }
SchemaTyped ==
    <<Field("name", FieldDef("string", Undefined, Undefined,
                             [Constraints EXCEPT !.length = Num(2)])),
      Field("age", FieldDef("number", Undefined, Undefined,
                            [MinMax(Num(18), Num(100)) EXCEPT !.format = "integer"])),
      Field("score", FieldDef("number", Undefined, Undefined, MinMax(Num(0), Num(100)))),
      Field("createdAt", FieldDef("iso8601", Undefined, Undefined, NoConstraints))>>
\* { email: {type:'string', constraints:{pattern:'email'}},
\*   phoneNumber: {type:'string', required:false, constraints:{pattern:'phone'}},
\*   lastName: {type:'string', constraints:{min:2, max:4}} }
SchemaText ==
    <<Field("email", FieldDef("string", Undefined, Undefined,
                              [Constraints EXCEPT !.pattern = "email"])),
      Field("phoneNumber", FieldDef("string", False, Undefined,
                                    [Constraints EXCEPT !.pattern = "phone"])),
      Field("lastName", FieldDef("string", Undefined, Undefined, MinMax(Num(2), Num(4))))>>

Schemas == {SchemaScenario, SchemaFlag, SchemaNoFields, SchemaEmptyEnum, SchemaBadType,
            SchemaIdBoolean, SchemaDefaults, SchemaTyped, SchemaText}

\* the seed of a configuration: absent, 0, positive, negative
SeedArgs == {Undefined, Num(0), Num(42), Num(-7)}
Totals == 0..MaxTotal
Offsets == -1..MaxTotal
Limits == -1..MaxTotal

ClockStart == 20000
Clocks == ClockStart..(ClockStart + MaxClock)

\* the schemas updateSchema is called with
UpdateSchemas == {SchemaFlag, SchemaEmptyEnum, SchemaScenario}

ConstructorConfigs ==
    {Config(Num(total), schema, seed) : total \in Totals, schema \in Schemas, seed \in SeedArgs}

\* reset({ seed }), reset({ totalRecords }), reset({}), reset({ schema }),
\* reset({ totalRecords, seed, schema })
ResetConfigs ==
    {PartialConfig(Undefined, Num(0)), PartialConfig(Undefined, Num(999)),
     PartialConfig(Num(1), Undefined),
     PartialConfig(Undefined, Undefined), PartialConfig(Num(-1), Undefined),
     [PartialConfig(Undefined, Undefined) EXCEPT !.hasSchema = TRUE, !.schema = SchemaFlag],
     [PartialConfig(Num(0), Num(-7)) EXCEPT !.hasSchema = TRUE, !.schema = SchemaScenario]}

----------------------------------------------------------------------------
(* The engine: construction, then calls in any order *)

NoResult ==
    [threw |-> FALSE, records |-> <<>>, hasMore |-> FALSE, nextOffset |-> Undefined,
     totalCount |-> 0, cs |-> 0]
NoState == [currentOffset |-> 0, totalRecords |-> 0, generatedCount |-> 0,
            schema |-> <<>>, seed |-> 0]
\* a call: its name and arguments, the engine before it, what it returned
Call(op, offset, limit, config, pre, preSeed, result, returned) ==
    [op |-> op, offset |-> offset, limit |-> limit, config |-> config, pre |-> pre,
     preSeed |-> preSeed, result |-> result, returned |-> returned]
NoCall == Call("none", 0, 0, PartialConfig(Undefined, Undefined), NoState, 0, NoResult, NoState)

IdleTwin == [phase |-> "idle"]
IdlePager == [phase |-> "idle"]
IdleValidate == [phase |-> "idle"]
NoRequests == <<>>
IdleLatency == [phase |-> "idle"]
IdleInjection == [phase |-> "idle"]
IdleServer == [phase |-> "idle"]
IdleClient == [phase |-> "idle"]

\* new DataGenerator(config)
Init ==
    /\ clock = ClockStart
    /\ \E config \in ConstructorConfigs :
         /\ state = constructState(config, clock)
         /\ currentSeed = createSeededRandom(state.seed)
    /\ calls = 0
    /\ last = NoCall
    /\ requests = NoRequests
    /\ server = IdleServer
    /\ client = IdleClient
    /\ latency = IdleLatency
    /\ injection = IdleInjection
    /\ prev = NoCall
    /\ twin = IdleTwin
    /\ pager = IdlePager
    /\ vcall = IdleValidate

\* generator.generateBatch(offset, limit)
GenerateBatch(offset, limit) ==
    /\ calls < MaxCalls
    /\ LET Respond(r) ==
               /\ currentSeed' = r.cs
               /\ last' = Call("generateBatch", offset, limit,
                               PartialConfig(Undefined, Undefined), state, currentSeed, r,
                               NoState)
       IN  Respond(generateBatch(state, currentSeed, offset, limit, clock))
    /\ calls' = calls + 1
    /\ UNCHANGED <<state, clock, prev, twin, pager, vcall, requests, latency,
                   injection, server, client>>

\* generator.reset(config)
Reset(config) ==
    /\ calls < MaxCalls
    /\ state' = resetState(state, config)
    /\ currentSeed' = resetRandom(currentSeed, config)
    /\ last' = Call("reset", 0, 0, config, state, currentSeed, NoResult, NoState)
    /\ calls' = calls + 1
    /\ UNCHANGED <<clock, prev, twin, pager, vcall, requests, latency, injection, server, client>>

\* generator.updateSchema(schema)
UpdateSchema(schema) ==
    /\ calls < MaxCalls
    /\ state' = updateSchemaState(state, schema)
    /\ last' = Call("updateSchema", 0, 0,
                    [PartialConfig(Undefined, Undefined) EXCEPT !.hasSchema = TRUE,
                                                                !.schema = schema],
                    state, currentSeed, NoResult, NoState)
    /\ calls' = calls + 1
    /\ UNCHANGED <<currentSeed, clock, prev, twin, pager, vcall, requests,
                   latency, injection, server, client>>

\* generator.getState()
GetState ==
    /\ calls < MaxCalls
    /\ last' = Call("getState", 0, 0, PartialConfig(Undefined, Undefined), state, currentSeed,
                    NoResult, getState(state))
    /\ calls' = calls + 1
    /\ UNCHANGED <<state, currentSeed, clock, prev, twin, pager, vcall,
                   requests, latency, injection, server, client>>

\* time passes between two calls
Tick ==
    /\ calls < MaxCalls
    /\ clock < ClockStart + MaxClock
    /\ clock' = clock + 1
    /\ UNCHANGED <<state, currentSeed, calls, last, prev, twin, pager, vcall,
                   requests, latency, injection, server, client>>

Next ==
    \/ \E offset \in Offsets, limit \in Limits : GenerateBatch(offset, limit)
    \/ \E config \in ResetConfigs : Reset(config)
    \/ \E schema \in UpdateSchemas : UpdateSchema(schema)
    \/ GetState
    \/ Tick

Spec == Init /\ [][Next]_vars

----------------------------------------------------------------------------
(* The same engine called repeatedly: each call remembers the one before *)

\* generator.generateBatch(offset, limit), after an earlier call
BatchAgain(offset, limit) ==
    /\ calls < MaxCalls
    /\ LET Respond(r) ==
               /\ currentSeed' = r.cs
               /\ last' = Call("generateBatch", offset, limit,
                               PartialConfig(Undefined, Undefined), state, currentSeed, r,
                               NoState)
       IN  Respond(generateBatch(state, currentSeed, offset, limit, clock))
    /\ prev' = last
    /\ calls' = calls + 1
    /\ UNCHANGED <<state, clock, twin, pager, vcall, requests, latency, injection, server, client>>

NextRepeat ==
    \/ \E offset \in Offsets, limit \in Limits : BatchAgain(offset, limit)
    \/ Tick

SpecRepeat == Init /\ [][NextRepeat]_vars

----------------------------------------------------------------------------
(* Two engines constructed independently from one configuration: the first *)
(* is state / currentSeed, the second is twin                              *)

InitTwin ==
    /\ clock = ClockStart
    /\ \E config \in ConstructorConfigs :
         /\ state = constructState(config, clock)
         /\ currentSeed = createSeededRandom(state.seed)
         /\ twin = [phase |-> "configured", config |-> config, state |-> NoState,
                    currentSeed |-> 0, last |-> NoCall]
    /\ calls = 0
    /\ last = NoCall
    /\ requests = NoRequests
    /\ server = IdleServer
    /\ client = IdleClient
    /\ latency = IdleLatency
    /\ injection = IdleInjection
    /\ prev = NoCall
    /\ pager = IdlePager
    /\ vcall = IdleValidate

\* generator2 = new DataGenerator(config), with the configuration of the first
ConstructTwin ==
    /\ twin.phase = "configured"
    /\ LET Construct(st) ==
               twin' = [twin EXCEPT !.phase = "constructed", !.state = st,
                                    !.currentSeed = createSeededRandom(st.seed)]
       IN  Construct(constructState(twin.config, clock))
    /\ UNCHANGED <<state, currentSeed, clock, calls, last, prev, pager, vcall,
                   requests, latency, injection, server, client>>

\* the first call of the first engine
FirstBatch(offset, limit) ==
    /\ calls = 0
    /\ GenerateBatch(offset, limit)

\* the first call of the second engine: generator2.generateBatch(offset, limit)
TwinBatch(offset, limit) ==
    /\ twin.phase = "constructed"
    /\ LET Respond(r) ==
               twin' = [twin EXCEPT !.phase = "called", !.currentSeed = r.cs,
                                    !.last = Call("generateBatch", offset, limit,
                                                  PartialConfig(Undefined, Undefined),
                                                  twin.state, twin.currentSeed, r, NoState)]
       IN  Respond(generateBatch(twin.state, twin.currentSeed, offset, limit, clock))
    /\ UNCHANGED <<state, currentSeed, clock, calls, last, prev, pager, vcall,
                   requests, latency, injection, server, client>>

\* time passes, until both engines have been called
TwinTick ==
    /\ twin.phase # "called"
    /\ clock < ClockStart + MaxClock
    /\ clock' = clock + 1
    /\ UNCHANGED <<state, currentSeed, calls, last, prev, twin, pager, vcall,
                   requests, latency, injection, server, client>>

NextTwin ==
    \/ ConstructTwin
    \/ \E offset \in Offsets, limit \in Limits : FirstBatch(offset, limit)
    \/ \E offset \in Offsets, limit \in Limits : TwinBatch(offset, limit)
    \/ TwinTick

SpecTwin == InitTwin /\ [][NextTwin]_vars

----------------------------------------------------------------------------
(* A client that pages through the records: it starts at offset 0 and asks *)
(* again at each returned nextOffset until hasMore is false                *)

\* parseInt(str, 10) of a string of decimal digits with an optional sign
DigitValue(ch) == CHOOSE d \in 0..9 : DecDigits[d + 1] = ch
RECURSIVE ParseDigits(_, _)
ParseDigits(str, acc) ==
    IF str = <<>> THEN acc ELSE ParseDigits(Tail(str), acc * 10 + DigitValue(Head(str)))
ParseInt(str) ==
    IF str # <<>> /\ Head(str) = "-" THEN -ParseDigits(Tail(str), 0) ELSE ParseDigits(str, 0)

PageLimits == 1..MaxTotal

InitPaginate ==
    /\ clock = ClockStart
    /\ \E config \in ConstructorConfigs :
         /\ state = constructState(config, clock)
         /\ currentSeed = createSeededRandom(state.seed)
    /\ \E limit \in PageLimits :
         pager = [phase |-> "paging", limit |-> limit, offset |-> 0, pages |-> 0,
                  records |-> <<>>]
    /\ calls = 0
    /\ last = NoCall
    /\ requests = NoRequests
    /\ server = IdleServer
    /\ client = IdleClient
    /\ latency = IdleLatency
    /\ injection = IdleInjection
    /\ prev = NoCall
    /\ twin = IdleTwin
    /\ vcall = IdleValidate

\* one page: generateBatch(offset, limit), then on to nextOffset
FetchPage ==
    /\ pager.phase = "paging"
    /\ LET Respond(r) ==
               /\ currentSeed' = r.cs
               /\ pager' = IF r.threw
                           THEN [pager EXCEPT !.phase = "threw", !.pages = @ + 1]
                           ELSE [pager EXCEPT
                                   !.phase = IF r.hasMore THEN "paging" ELSE "done",
                                   !.offset = IF r.hasMore THEN ParseInt(r.nextOffset.s)
                                              ELSE @,
                                   !.pages = @ + 1,
                                   !.records = @ \o r.records]
       IN  Respond(generateBatch(state, currentSeed, pager.offset, pager.limit, clock))
    /\ UNCHANGED <<state, clock, calls, last, prev, twin, vcall, requests,
                   latency, injection, server, client>>

NextPaginate == FetchPage

SpecPaginate == InitPaginate /\ [][NextPaginate]_vars

----------------------------------------------------------------------------
(* The static validator, called once on an argument of any kind *)

ValidateTypes == {"uuid", "string", "number", "boolean", "iso8601", "enum", "invalid_type", ""}

\* absent, {}, {min, max} in either order and equal, {length}, {enum},
\* two violations at once, {min, max} as date strings
ValidateConstraints ==
    {NoConstraints, Constraints,
     MinMax(Num(1), Num(2)), MinMax(Num(2), Num(1)), MinMax(Num(1), Num(1)),
     [Constraints EXCEPT !.length = Num(-1)], [Constraints EXCEPT !.length = Num(0)],
     EnumOf(<<>>), EnumOf(<<Active>>),
     [MinMax(Num(2), Num(1)) EXCEPT !.length = Num(-1)],
     MinMax(DateStr(2), DateStr(1))}

ValidateDefs ==
    {FieldDef(type, Undefined, Undefined, c) : type \in ValidateTypes, c \in ValidateConstraints}
    \cup {NullDef}

\* the first field of a schema of two fields
FirstDefs == {FieldDef("uuid", True, Undefined, NoConstraints),
              FieldDef("invalid_type", Undefined, Undefined, NoConstraints),
              FieldDef("number", Undefined, Undefined, MinMax(Num(2), Num(1))),
              NullDef}

\* null, undefined, '', 0, false, [] and objects of zero, one and two fields
ValidateInputs ==
    {OtherValue(kind) : kind \in {"null", "undefined", "string", "number", "boolean", "array"}}
    \cup {ObjectValue(<<>>)}
    \cup {ObjectValue(<<Field("field1", def)>>) : def \in ValidateDefs}
    \cup {ObjectValue(<<Field("field1", first), Field("field2", def)>>) :
            first \in FirstDefs, def \in ValidateDefs}

NoValidation == [threw |-> FALSE, valid |-> FALSE, errors |-> <<>>]

InitValidate ==
    /\ clock = ClockStart
    /\ state = NoState
    /\ currentSeed = 0
    /\ calls = 0
    /\ last = NoCall
    /\ requests = NoRequests
    /\ server = IdleServer
    /\ client = IdleClient
    /\ latency = IdleLatency
    /\ injection = IdleInjection
    /\ prev = NoCall
    /\ twin = IdleTwin
    /\ pager = IdlePager
    /\ \E schema \in ValidateInputs :
         vcall = [phase |-> "calling", schema |-> schema, result |-> NoValidation]

\* DataGenerator.validateSchema(schema)
Validate ==
    /\ vcall.phase = "calling"
    /\ LET Respond(r) ==
               vcall' = [vcall EXCEPT !.phase = IF r.threw THEN "threw" ELSE "returned",
                                      !.result = r]
       IN  Respond(validateSchema(vcall.schema))
    /\ UNCHANGED <<state, currentSeed, clock, calls, last, prev, twin, pager,
                   requests, latency, injection, server, client>>

NextValidate == Validate

SpecValidate == InitValidate /\ [][NextValidate]_vars

----------------------------------------------------------------------------
(* An engine that is given a new seed by reset({ seed }), next to a fresh   *)
(* engine constructed with that seed and the first engine's schema and      *)
(* totalRecords; from then on both receive the same generateBatch calls     *)

\* the seeds passed to reset
ReseedArgs == {Num(0), Num(999)}

\* a generateBatch call of the first engine before its reset
WarmUp(offset, limit) ==
    /\ twin.phase = "idle"
    /\ calls = 0
    /\ GenerateBatch(offset, limit)

\* generator.reset({ seed }) and fresh = new DataGenerator({ seed, schema, totalRecords })
Reseed(seed) ==
    /\ twin.phase = "idle"
    /\ state' = resetState(state, PartialConfig(Undefined, seed))
    /\ currentSeed' = resetRandom(currentSeed, PartialConfig(Undefined, seed))
    /\ last' = Call("reset", 0, 0, PartialConfig(Undefined, seed), state, currentSeed,
                    NoResult, NoState)
    /\ LET Construct(config, st) ==
               twin' = [phase |-> "fresh", config |-> config, state |-> st,
                        currentSeed |-> createSeededRandom(st.seed), last |-> NoCall]
           Configure(config) == Construct(config, constructState(config, clock))
       IN  Configure(Config(Num(state.totalRecords), state.schema, seed))
    /\ UNCHANGED <<clock, calls, prev, pager, vcall, requests, latency, injection, server, client>>

\* generator.generateBatch(offset, limit) and fresh.generateBatch(offset, limit)
BothBatch(offset, limit) ==
    /\ twin.phase \in {"fresh", "paired"}
    /\ calls < MaxCalls
    /\ LET Respond(r) ==
               /\ currentSeed' = r.cs
               /\ last' = Call("generateBatch", offset, limit,
                               PartialConfig(Undefined, Undefined), state, currentSeed, r,
                               NoState)
       IN  Respond(generateBatch(state, currentSeed, offset, limit, clock))
    /\ LET Respond(r) ==
               twin' = [twin EXCEPT !.phase = "paired", !.currentSeed = r.cs,
                                    !.last = Call("generateBatch", offset, limit,
                                                  PartialConfig(Undefined, Undefined),
                                                  twin.state, twin.currentSeed, r, NoState)]
       IN  Respond(generateBatch(twin.state, twin.currentSeed, offset, limit, clock))
    /\ calls' = calls + 1
    /\ UNCHANGED <<state, clock, prev, pager, vcall, requests, latency, injection, server, client>>

NextReseed ==
    \/ \E offset \in Offsets, limit \in Limits : WarmUp(offset, limit)
    \/ \E seed \in ReseedArgs : Reseed(seed)
    \/ \E offset \in Offsets, limit \in Limits : BothBatch(offset, limit)
    \/ Tick

SpecReseed == Init /\ [][NextReseed]_vars

----------------------------------------------------------------------------
(* The HTTP collaborator: RecordsController in front of one engine.  The    *)
(* clients' requests are all in flight before the first is handled, and the *)
(* server handles them one at a time in any order.                          *)

DefaultLimit == 100
LimitCap == 1000
DefaultTotalRecords == 10000
MaxRequests == 3

NaN == [k |-> "number", n |-> 0, f |-> 0, s |-> <<"N", "a", "N">>]

\* the decimal digits at the head of str
RECURSIVE LeadingDigits(_)
LeadingDigits(str) ==
    IF str # <<>> /\ \E d \in 1..10 : DecDigits[d] = Head(str)
    THEN <<Head(str)>> \o LeadingDigits(Tail(str))
    ELSE <<>>

\* parseInt(str, 10): an optional sign and the leading digits, NaN without a digit
parseInt(str) ==
    LET Signed(negative, digits) ==
            IF digits = <<>> THEN NaN
            ELSE Num(IF negative THEN -ParseDigits(digits, 0) ELSE ParseDigits(digits, 0))
    IN  IF str # <<>> /\ Head(str) = "-" THEN Signed(TRUE, LeadingDigits(Tail(str)))
        ELSE Signed(FALSE, LeadingDigits(str))

\* a || b for a number a (NaN and 0 are falsy)
OrElse(a, b) == IF a = NaN \/ a.n = 0 THEN b ELSE a.n

\* what a handler sends: res.status(code).json(...); called tells whether
\* generateBatch ran for the request
Response(code, called, batch, errors) ==
    [code |-> code, called |-> called, data |-> batch.records, hasMore |-> batch.hasMore,
     nextOffset |-> batch.nextOffset, totalCount |-> batch.totalCount, errors |-> errors]
NoResponse == Response(0, FALSE, NoResult, <<>>)

\* handleError: 500
handleError(called) == Response(500, called, NoResult, <<>>)

\* getRecords: the response and the generator afterwards
getRecords(st, cs, query, now) ==
    LET limitNumber ==
            Min(OrElse(parseInt(IF query.limit = Undefined THEN ToDec(DefaultLimit)
                                ELSE query.limit.s), DefaultLimit), LimitCap)
        offsetNumber ==
            OrElse(parseInt(IF query.offset = Undefined THEN <<"0">> ELSE query.offset.s), 0)
        Respond(result) ==
            [response |-> IF result.threw THEN handleError(TRUE)
                          ELSE Response(200, TRUE, result, <<>>),
             state |-> st, cs |-> result.cs]
    IN  Respond(generateBatch(st, cs, offsetNumber, limitNumber, now))

\* the configuration resetData and seedData pass to reset
ResetConfig(body, now) ==
    PartialConfig(IF body.totalRecords = Undefined THEN Num(DefaultTotalRecords)
                  ELSE body.totalRecords,
                  IF Truthy(body.seed) THEN body.seed ELSE Num(now))

\* resetData
resetData(st, cs, body, now) ==
    [response |-> Response(200, FALSE, NoResult, <<>>),
     state |-> resetState(st, ResetConfig(body, now)),
     cs |-> resetRandom(cs, ResetConfig(body, now))]

\* if (schema): null, undefined, '', 0 and false are falsy, objects and arrays truthy
SchemaGiven(schema) == schema.kind \in {"object", "array"}

\* seedData
seedData(st, cs, body, now) ==
    LET WithSchema(config) ==
            [response |-> Response(200, FALSE, NoResult, <<>>),
             state |-> resetState(updateSchemaState(st, body.schema.entries), config),
             cs |-> resetRandom(cs, config)]
        Validated(validation) ==
            IF validation.threw
            THEN [response |-> handleError(FALSE), state |-> st, cs |-> cs]
            ELSE IF ~validation.valid
            THEN [response |-> Response(400, FALSE, NoResult, validation.errors),
                  state |-> st, cs |-> cs]
            ELSE WithSchema([ResetConfig(body, now) EXCEPT !.hasSchema = TRUE,
                                                         !.schema = body.schema.entries])
    IN  IF SchemaGiven(body.schema) THEN Validated(validateSchema(body.schema))
        ELSE resetData(st, cs, body, now)

Text(chars) == Str(chars)
Query(offset, limit) == [offset |-> offset, limit |-> limit]
NoQuery == Query(Undefined, Undefined)
Body(schema, totalRecords, seed) ==
    [schema |-> schema, totalRecords |-> totalRecords, seed |-> seed]
NoBody == Body(OtherValue("undefined"), Undefined, Undefined)
Request(route, query, body) == [route |-> route, query |-> query, body |-> body]

\* GET /api/records with and without offset and limit: in range, negative,
\* non-numeric, above the cap
RecordsRequests ==
    {Request("records", query, NoBody) :
       query \in {NoQuery,
                  Query(Text(<<"0">>), Text(<<"1">>)),
                  Query(Text(<<"1">>), Text(<<"1">>)),
                  Query(Text(<<"-", "1">>), Text(<<"1">>)),
                  Query(Text(<<"0">>), Text(<<"-", "1">>)),
                  Query(Text(<<"a", "b", "c">>), Text(<<"1">>)),
                  Query(Text(<<"0">>), Text(<<"a", "b", "c">>)),
                  Query(Text(<<"0">>), Text(<<"5", "0", "0", "0">>))}}

\* POST /api/reset { totalRecords, seed }, a negative totalRecords included
ResetRequests ==
    {Request("reset", NoQuery, Body(OtherValue("undefined"), Num(MaxTotal), Num(999))),
     Request("reset", NoQuery, Body(OtherValue("undefined"), Num(1), Num(0))),
     Request("reset", NoQuery, Body(OtherValue("undefined"), Num(-1), Num(999)))}

\* POST /api/seed { schema, totalRecords, seed }: no schema, null, a valid
\* schema, an unknown type, an enum without values, a null field definition
SeedRequests ==
    {Request("seed", NoQuery, Body(schema, Num(MaxTotal), Num(999))) :
       schema \in {OtherValue("undefined"), OtherValue("null"),
                   ObjectValue(SchemaFlag), ObjectValue(SchemaBadType),
                   ObjectValue(SchemaEmptyEnum),
                   ObjectValue(<<Field("field1", NullDef)>>)}}

Requests == RecordsRequests \cup ResetRequests \cup SeedRequests

Pending(req) == [req |-> req, status |-> "pending", order |-> 0, response |-> NoResponse]
Handled == {i \in 1..Len(requests) : requests[i].status = "done"}

\* the server starts with new DataGenerator(config.generation), seed: Date.now()
InitApi ==
    /\ clock = ClockStart
    /\ state = constructState(Config(Num(MaxTotal), SchemaScenario, Num(clock)), clock)
    /\ currentSeed = createSeededRandom(state.seed)
    /\ calls = 0
    /\ last = NoCall
    /\ prev = NoCall
    /\ twin = IdleTwin
    /\ pager = IdlePager
    /\ vcall = IdleValidate
    /\ requests = NoRequests
    /\ server = IdleServer
    /\ client = IdleClient
    /\ latency = IdleLatency
    /\ injection = IdleInjection

\* a client sends a request
Send(req) ==
    /\ Len(requests) < MaxRequests
    /\ Handled = {}
    /\ requests' = Append(requests, Pending(req))
    /\ UNCHANGED <<state, currentSeed, clock, calls, last, prev, twin, pager, vcall,
                   latency, injection, server, client>>

\* the route table of the server
Dispatch(req, st, cs, now) ==
    CASE req.route = "records" -> getRecords(st, cs, req.query, now)
      [] req.route = "reset" -> resetData(st, cs, req.body, now)
      [] req.route = "seed" -> seedData(st, cs, req.body, now)

\* the server runs the handler of one request in flight
Handle(i) ==
    /\ requests[i].status = "pending"
    /\ LET Respond(out) ==
               /\ state' = out.state
               /\ currentSeed' = out.cs
               /\ requests' = [requests EXCEPT ![i].status = "done",
                                               ![i].order = Cardinality(Handled) + 1,
                                               ![i].response = out.response]
       IN  Respond(Dispatch(requests[i].req, state, currentSeed, clock))
    /\ UNCHANGED <<clock, calls, last, prev, twin, pager, vcall, latency, injection,
                   server, client>>

NextApi ==
    \/ \E req \in Requests : Send(req)
    \/ \E i \in 1..Len(requests) : Handle(i)
    \/ Tick

SpecApi == InitApi /\ [][NextApi]_vars

----------------------------------------------------------------------------
(* The latency middleware.  A double is a rational p / q in lowest terms,  *)
(* an infinity (p its sign) or NaN; arithmetic follows IEEE 754 on these.  *)

RECURSIVE Gcd(_, _)
Gcd(a, b) == IF b = 0 THEN a ELSE Gcd(b, a % b)
Magnitude(i) == IF i < 0 THEN -i ELSE i
Fin(p, q) ==
    LET Lowest(g) == [k |-> "fin", p |-> p \div g, q |-> q \div g]
    IN  IF p = 0 THEN [k |-> "fin", p |-> 0, q |-> 1] ELSE Lowest(Gcd(Magnitude(p), q))
Whole(i) == Fin(i, 1)
Infinity == [k |-> "inf", p |-> 1, q |-> 1]
NegInfinity == [k |-> "inf", p |-> -1, q |-> 1]
NotANumber == [k |-> "nan", p |-> 0, q |-> 1]
SignedInfinity(a, b) == IF (a.p < 0) # (b.p < 0) THEN NegInfinity ELSE Infinity

\* a * b: Infinity * 0 is NaN
Times(a, b) ==
    CASE a.k = "nan" \/ b.k = "nan" -> NotANumber
      [] a.k = "fin" /\ b.k = "fin" -> Fin(a.p * b.p, a.q * b.q)
      [] OTHER -> IF a.p = 0 \/ b.p = 0 THEN NotANumber ELSE SignedInfinity(a, b)
\* a / b: Infinity / Infinity and 0 / 0 are NaN, x / 0 is an infinity
Over(a, b) ==
    CASE a.k = "nan" \/ b.k = "nan" -> NotANumber
      [] a.k = "inf" /\ b.k = "inf" -> NotANumber
      [] a.k = "inf" -> SignedInfinity(a, b)
      [] b.k = "inf" -> Whole(0)
      [] b.p = 0 -> IF a.p = 0 THEN NotANumber ELSE SignedInfinity(a, b)
      [] OTHER -> IF b.p < 0 THEN Fin(-(a.p * b.q), a.q * (-b.p))
                  ELSE Fin(a.p * b.q, a.q * b.p)
\* a + b: Infinity + -Infinity is NaN
Plus(a, b) ==
    CASE a.k = "nan" \/ b.k = "nan" -> NotANumber
      [] a.k = "fin" /\ b.k = "fin" -> Fin(a.p * b.q + b.p * a.q, a.q * b.q)
      [] a.k = "inf" /\ b.k = "inf" -> IF a.p = b.p THEN a ELSE NotANumber
      [] a.k = "inf" -> a
      [] OTHER -> b
Negate(a) == [a EXCEPT !.p = -a.p]
Minus(a, b) == Plus(a, Negate(b))
\* a <= b for two numbers other than NaN
AtMost(a, b) ==
    CASE a.k = "fin" /\ b.k = "fin" -> a.p * b.q <= b.p * a.q
      [] a.k = "inf" -> a.p < 0 \/ (b.k = "inf" /\ b.p > 0)
      [] OTHER -> b.p > 0
\* Math.min / Math.max: NaN if either argument is NaN
MathMin(a, b) ==
    IF a.k = "nan" \/ b.k = "nan" THEN NotANumber ELSE IF AtMost(a, b) THEN a ELSE b
MathMax(a, b) ==
    IF a.k = "nan" \/ b.k = "nan" THEN NotANumber ELSE IF AtMost(a, b) THEN b ELSE a
\* Math.sqrt, for the squares of rationals
Root(n) == CHOOSE r \in 0..n : r * r = n
MathSqrt(a) ==
    CASE a.k = "nan" -> NotANumber
      [] a.k = "inf" -> IF a.p > 0 THEN Infinity ELSE NotANumber
      [] OTHER -> IF a.p < 0 THEN NotANumber ELSE Fin(Root(a.p), Root(a.q))

\* One Math.random() result u in [0, 1), with Math.log(u) and
\* Math.cos(2 * Math.PI * u) rounded to rationals.  Math.log(0) is -Infinity;
\* no double u makes the cosine exactly 0.
Random(u, log, cos) == [u |-> u, log |-> log, cos |-> cos]
Randoms ==
    {Random(Whole(0), NegInfinity, Whole(1)),
     Random(Fin(1, 2), Fin(-1, 2), Whole(-1)),
     Random(Fin(1, 8), Whole(-2), Fin(2, 3)),
     Random(Fin(7, 8), Fin(-1, 8), Fin(3, 4)),
     Random(Fin(1, 3000), Whole(-8), Whole(1))}

LatencyConfig(enabled, minMs, maxMs, distribution) ==
    [enabled |-> enabled, minMs |-> minMs, maxMs |-> maxMs, distribution |-> distribution]

\* generateNormalDistribution(min, max), u1 and u2 its two Math.random() results
generateNormalDistribution(min, max, u1, u2) ==
    LET mean == Over(Plus(min, max), Whole(2))
        stdDev == Over(Minus(max, min), Whole(6))
        z0 == Times(MathSqrt(Times(Whole(-2), u1.log)), u2.cos)
        value == Plus(mean, Times(z0, stdDev))
    IN  MathMax(min, MathMin(max, value))

\* generateExponentialDistribution(min, max), u its Math.random() result
generateExponentialDistribution(min, max, u) ==
    LET lambda == Over(Whole(1), Over(Minus(max, min), Whole(3)))
        value == Plus(Over(Negate(u.log), lambda), min)
    IN  MathMax(min, MathMin(max, value))

\* generateLatency()
generateLatency(config, u1, u2) ==
    LET minMs == Whole(config.minMs)
        maxMs == Whole(config.maxMs)
    IN  CASE config.distribution = "normal" ->
               generateNormalDistribution(minMs, maxMs, u1, u2)
          [] config.distribution = "exponential" ->
               generateExponentialDistribution(minMs, maxMs, u1)
          [] OTHER -> Plus(Times(u1.u, Minus(maxMs, minMs)), minMs)

LatencyMs == {0, 100, 500}
Distributions == {"uniform", "normal", "exponential"}
LatencyConfigs ==
    {LatencyConfig(enabled, minMs, maxMs, distribution) :
        enabled \in BOOLEAN, minMs \in LatencyMs, maxMs \in LatencyMs,
        distribution \in Distributions}
\* the configurations the server starts with: validateConfig rejects an
\* enabled latency middleware with minMs > maxMs
StartupLatencyConfigs == {c \in LatencyConfigs : c.enabled => c.minMs <= c.maxMs}
\* an updateConfig that leaves the configuration as it was
MergeKeepsOld(config, partial) == config

\* { ...this.config, ...config }
Merge(config, partial) ==
    [key \in DOMAIN config |-> IF key \in DOMAIN partial THEN partial[key] ELSE config[key]]
\* updateConfig's arguments: one property each
LatencyUpdates ==
    {[enabled |-> b] : b \in BOOLEAN} \cup {[minMs |-> m] : m \in LatencyMs}
        \cup {[maxMs |-> m] : m \in LatencyMs}
        \cup {[distribution |-> d] : d \in Distributions}

InitLatency ==
    /\ clock = ClockStart
    /\ state = NoState
    /\ currentSeed = 0
    /\ calls = 0
    /\ last = NoCall
    /\ prev = NoCall
    /\ twin = IdleTwin
    /\ pager = IdlePager
    /\ vcall = IdleValidate
    /\ requests = NoRequests
    /\ server = IdleServer
    /\ client = IdleClient
    /\ injection = IdleInjection
    /\ \E config \in StartupLatencyConfigs :
         latency = [phase |-> "ready", config |-> config, delayed |-> FALSE,
                    latencyMs |-> Whole(0)]

\* injectLatency(req, res, next) for a route the middleware applies to
InjectLatency(u1, u2) ==
    /\ latency.phase = "ready"
    /\ latency' = IF ~latency.config.enabled
                  THEN [latency EXCEPT !.phase = "next"]
                  ELSE [latency EXCEPT !.phase = "next", !.delayed = TRUE,
                                       !.latencyMs = generateLatency(latency.config, u1, u2)]
    /\ UNCHANGED <<state, currentSeed, clock, calls, last, prev, twin, pager, vcall,
                   requests, injection, server, client>>

\* updateConfig(config), before the next request
UpdateLatencyConfig(update) ==
    /\ latency.phase = "next"
    /\ calls < MaxCalls
    /\ latency' = [phase |-> "ready", config |-> Merge(latency.config, update),
                   delayed |-> FALSE, latencyMs |-> Whole(0)]
    /\ calls' = calls + 1
    /\ UNCHANGED <<state, currentSeed, clock, last, prev, twin, pager, vcall,
                   requests, injection, server, client>>

NextLatency ==
    \/ \E u1 \in Randoms, u2 \in Randoms : InjectLatency(u1, u2)
    \/ \E update \in LatencyUpdates : UpdateLatencyConfig(update)

SpecLatency == InitLatency /\ [][NextLatency]_vars

----------------------------------------------------------------------------
(* The error injection middleware.  Rates and probabilities are doubles as *)
(* above; types and messages are only copied and compared.                 *)

ErrorType(type, statusCode, message, probability) ==
    [type |-> type, statusCode |-> statusCode, message |-> message,
     probability |-> probability]
NoErrorType == ErrorType("", 0, "", Whole(0))

\* ErrorInjectionMiddleware.getDefaultErrorTypes()
getDefaultErrorTypes ==
    <<ErrorType("server_error", 500, "Internal server error occurred", Fin(2, 5)),
      ErrorType("timeout", 504, "Request timeout", Fin(1, 5)),
      ErrorType("bad_request", 400, "Bad request parameters", Fin(1, 5)),
      ErrorType("rate_limit", 429, "Rate limit exceeded", Fin(1, 10)),
      ErrorType("unauthorized", 401, "Unauthorized access", Fin(1, 10))>>
\* the errorTypes of the loaded configuration
ConfiguredErrorTypes ==
    <<ErrorType("server_error", 500, "Internal Server Error", Fin(2, 5)),
      ErrorType("timeout", 408, "Request Timeout", Fin(3, 10)),
      ErrorType("bad_request", 400, "Bad Request", Fin(1, 5)),
      ErrorType("rate_limit", 429, "Too Many Requests", Fin(1, 10))>>

\* errorType.type.replace('_', ' ').toUpperCase() on the five types
ErrorLabel(type) ==
    CASE type = "server_error" -> "SERVER ERROR"
      [] type = "timeout" -> "TIMEOUT"
      [] type = "bad_request" -> "BAD REQUEST"
      [] type = "rate_limit" -> "RATE LIMIT"
      [] type = "unauthorized" -> "UNAUTHORIZED"

\* str.startsWith(prefix) / str.includes(part)
StartsWith(str, prefix) ==
    Len(prefix) <= Len(str) /\ SubSeq(str, 1, Len(prefix)) = prefix
Includes(str, part) ==
    \E from \in 0..(Len(str) - Len(part)) : SubSeq(str, from + 1, from + Len(part)) = part

Health == <<"h", "e", "a", "l", "t", "h">>
Metrics == <<"m", "e", "t", "r", "i", "c", "s">>
Api == <<"/", "a", "p", "i", "/">>
RecordsPath == Api \o <<"r", "e", "c", "o", "r", "d", "s">>
SeedPath == Api \o <<"s", "e", "e", "d">>
HealthPath == Api \o Health
MetricsPath == Api \o Metrics
Paths == {RecordsPath, SeedPath, HealthPath, MetricsPath}

ErrorInjectionConfig(enabled, errorRate, errorTypes, applyToRoutes, excludeRoutes) ==
    [enabled |-> enabled, errorRate |-> errorRate, errorTypes |-> errorTypes,
     applyToRoutes |-> applyToRoutes, excludeRoutes |-> excludeRoutes]

\* shouldApplyErrors(path)
shouldApplyErrors(config, path) ==
    IF Includes(path, Health) \/ Includes(path, Metrics) THEN FALSE
    ELSE IF Len(config.applyToRoutes) > 0
    THEN \E r \in 1..Len(config.applyToRoutes) : StartsWith(path, config.applyToRoutes[r])
    ELSE IF Len(config.excludeRoutes) > 0
    THEN ~\E r \in 1..Len(config.excludeRoutes) : StartsWith(path, config.excludeRoutes[r])
    ELSE TRUE

\* the reduce of selectErrorType: the sum of the probabilities
RECURSIVE TotalProbability(_, _)
TotalProbability(errorTypes, j) ==
    IF j > Len(errorTypes) THEN Whole(0)
    ELSE Plus(errorTypes[j].probability, TotalProbability(errorTypes, j + 1))

\* the for loop of selectErrorType from entry j on, then the fallback to
\* the first entry
RECURSIVE SelectFrom(_, _, _)
SelectFrom(errorTypes, j, random) ==
    LET Try(rest) == IF AtMost(rest, Whole(0)) THEN errorTypes[j]
                     ELSE SelectFrom(errorTypes, j + 1, rest)
    IN  IF j > Len(errorTypes)
        THEN IF Len(errorTypes) > 0 THEN errorTypes[1] ELSE NoErrorType
        ELSE Try(Minus(random, errorTypes[j].probability))

\* a selectErrorType that returns the first configured type
selectFirstErrorType(config, u) ==
    IF TotalProbability(config.errorTypes, 1) = Whole(0) THEN NoErrorType
    ELSE config.errorTypes[1]

\* selectErrorType(): the selected type, or NoErrorType for null
selectErrorType(config, u) ==
    LET Select(totalProbability) ==
            IF totalProbability = Whole(0) THEN NoErrorType
            ELSE SelectFrom(config.errorTypes, 1, Times(u, totalProbability))
    IN  Select(TotalProbability(config.errorTypes, 1))

TimeoutDelayMs == 30000

ErrorResponse(sent, statusCode, error, message, delayMs) ==
    [sent |-> sent, statusCode |-> statusCode, error |-> error, message |-> message,
     delayMs |-> delayMs]
\* nothing was sent: next() was called
PassedOn == ErrorResponse(FALSE, 0, "", "", 0)

\* the switch of injectErrors on the selected type
respondWith(errorType) ==
    LET errorResponse == ErrorResponse(TRUE, errorType.statusCode,
                                       ErrorLabel(errorType.type), errorType.message, 0)
    IN  CASE errorType.type = "timeout" -> [errorResponse EXCEPT !.delayMs = TimeoutDelayMs]
          [] errorType.type = "server_error" -> errorResponse
          [] errorType.type = "bad_request" ->
               [errorResponse EXCEPT !.message = "Invalid request parameters"]
          [] errorType.type = "unauthorized" ->
               [errorResponse EXCEPT !.message = "Authentication failed"]
          [] errorType.type = "rate_limit" ->
               [errorResponse EXCEPT !.message = "Rate limit exceeded"]
          [] OTHER -> errorResponse

\* injectErrors(req, res, next): the selected type and the response; u1 and
\* u2 are the results of its Math.random() calls
injectErrors(config, path, u1, u2) ==
    LET Answer(errorType) ==
            IF errorType = NoErrorType THEN [selected |-> NoErrorType, response |-> PassedOn]
            ELSE [selected |-> errorType, response |-> respondWith(errorType)]
    IN  IF ~config.enabled \/ ~shouldApplyErrors(config, path)
               \/ ~AtMost(u1, config.errorRate)
        THEN [selected |-> NoErrorType, response |-> PassedOn]
        ELSE Answer(selectErrorType(config, u2))

MaxInjected == 2

\* Math.random() results: for the gate, for the selection
GateRandoms == {Whole(0), Fin(1, 2), Fin(19, 20)}
ErrorRandoms == {Whole(0), Fin(1, 2), Fin(7, 10), Fin(17, 20), Fin(19, 20)}
ErrorRates == {Whole(0), Fin(1, 2), Whole(1)}
ErrorTypeLists == {getDefaultErrorTypes, ConfiguredErrorTypes}
\* the configurations the server constructs the middleware with
StartupErrorConfigs ==
    {ErrorInjectionConfig(enabled, errorRate, errorTypes, <<>>, <<HealthPath, MetricsPath>>) :
        enabled \in BOOLEAN, errorRate \in ErrorRates, errorTypes \in ErrorTypeLists}
\* updateConfig's arguments
ErrorUpdates ==
    {[errorTypes |-> <<>>], [applyToRoutes |-> <<SeedPath>>], [excludeRoutes |-> <<>>],
     [enabled |-> TRUE]}

\* the path and the two Math.random() results of the request last handled
NoInjectionRequest == [path |-> <<>>, gate |-> Whole(0), pick |-> Whole(0)]

InitErrors ==
    /\ clock = ClockStart
    /\ state = NoState
    /\ currentSeed = 0
    /\ calls = 0
    /\ last = NoCall
    /\ prev = NoCall
    /\ twin = IdleTwin
    /\ pager = IdlePager
    /\ vcall = IdleValidate
    /\ requests = NoRequests
    /\ server = IdleServer
    /\ client = IdleClient
    /\ latency = IdleLatency
    /\ \E config \in StartupErrorConfigs :
         injection = [phase |-> "ready", config |-> config, errorCount |-> 0,
                      totalRequests |-> 0, selected |-> NoErrorType,
                      response |-> PassedOn,
                      request |-> NoInjectionRequest]

\* one request through injectErrors
InjectErrors(path, u1, u2) ==
    /\ injection.phase # "idle"
    /\ injection.totalRequests < MaxInjected
    /\ LET Respond(out) ==
               injection' = [injection EXCEPT
                                !.phase = IF out.response.sent THEN "responded" ELSE "next",
                                !.totalRequests = @ + 1,
                                !.errorCount = IF out.response.sent THEN @ + 1 ELSE @,
                                !.selected = out.selected,
                                !.response = out.response,
                                !.request = [path |-> path, gate |-> u1, pick |-> u2]]
       IN  Respond(injectErrors(injection.config, path, u1, u2))
    /\ UNCHANGED <<state, currentSeed, clock, calls, last, prev, twin, pager, vcall,
                   requests, latency, server, client>>

\* updateConfig(config), between two requests
UpdateErrorConfig(update) ==
    /\ injection.phase # "idle"
    /\ injection' = [injection EXCEPT !.phase = "ready",
                                      !.config = Merge(injection.config, update),
                                      !.selected = NoErrorType, !.response = PassedOn,
                                      !.request = NoInjectionRequest]
    /\ UNCHANGED <<state, currentSeed, clock, calls, last, prev, twin, pager, vcall,
                   requests, latency, server, client>>

\* resetStats()
ResetStats ==
    /\ injection.phase # "idle"
    /\ injection.totalRequests > 0
    /\ injection' = [injection EXCEPT !.errorCount = 0, !.totalRequests = 0]
    /\ UNCHANGED <<state, currentSeed, clock, calls, last, prev, twin, pager, vcall,
                   requests, latency, server, client>>

NextErrors ==
    \/ \E path \in Paths, u1 \in GateRandoms, u2 \in ErrorRandoms :
         InjectErrors(path, u1, u2)
    \/ \E update \in ErrorUpdates : UpdateErrorConfig(update)
    \/ ResetStats

SpecErrors == InitErrors /\ [][NextErrors]_vars

----------------------------------------------------------------------------
(* The server: app.use(injectLatency), app.use(injectErrors),               *)
(* app.use(authenticate), then the routes.  An API key is a string, ""      *)
(* standing for a request without the header.                               *)

AuthConfig(enabled, apiKey, headerName) ==
    [enabled |-> enabled, apiKey |-> apiKey, headerName |-> headerName]

\* authenticate(req, res, next): the status sent, 0 for next()
authenticate(config, providedKey) ==
    IF ~config.enabled THEN [status |-> 0, error |-> ""]
    ELSE IF providedKey = "" THEN [status |-> 401, error |-> "Missing API key"]
    ELSE IF providedKey # config.apiKey THEN [status |-> 401, error |-> "Invalid API key"]
    ELSE [status |-> 0, error |-> ""]

\* shouldApplyLatency(path)
shouldApplyLatency(config, path) ==
    IF Len(config.applyToRoutes) > 0
    THEN \E r \in 1..Len(config.applyToRoutes) : StartsWith(path, config.applyToRoutes[r])
    ELSE IF Len(config.excludeRoutes) > 0
    THEN ~\E r \in 1..Len(config.excludeRoutes) : StartsWith(path, config.excludeRoutes[r])
    ELSE TRUE

\* injectLatency(req, res, next): whether the request was delayed, and by how much
injectLatency(config, path, u1, u2) ==
    IF ~config.enabled \/ ~shouldApplyLatency(config, path)
    THEN [delayed |-> FALSE, latencyMs |-> Whole(0)]
    ELSE [delayed |-> TRUE, latencyMs |-> generateLatency(config, u1, u2)]

DetailedPath == HealthPath \o <<"/", "d", "e", "t", "a", "i", "l", "e", "d">>
ReadyPath == Api \o <<"r", "e", "a", "d", "y">>
LivePath == Api \o <<"l", "i", "v", "e">>
HealthRoutes == {HealthPath, DetailedPath, ReadyPath, LivePath, MetricsPath}

\* what the chain did with a request: the middleware or route that answered
\* it (stage), the status sent, and the latency injected on the way
Outcome(stage, status, message, delay) ==
    [stage |-> stage, status |-> status, message |-> message, delayed |-> delay.delayed,
     latencyMs |-> delay.latencyMs]
NoOutcome == Outcome("none", 0, "", [delayed |-> FALSE, latencyMs |-> Whole(0)])

\* one request through the three middlewares, up to the route handler
throughMiddleware(srv, path, providedKey, draws) ==
    LET Authenticated(delay, answer) ==
            IF answer.status # 0 THEN Outcome("auth", answer.status, answer.error, delay)
            ELSE Outcome("route", 200, "", delay)
        Injected(delay, out) ==
            IF out.response.sent
            THEN Outcome("errors", out.response.statusCode, out.response.message, delay)
            ELSE Authenticated(delay, authenticate(srv.auth, providedKey))
        Delayed(delay) == Injected(delay, injectErrors(srv.errors, path, draws[3], draws[4]))
    IN  Delayed(injectLatency(srv.latency, path, draws[1], draws[2]))

\* updateMiddlewareConfig: updateConfig on every middleware the body names
updateMiddlewareConfig(srv, body) ==
    [srv EXCEPT
        !.latency = IF "latency" \in DOMAIN body THEN Merge(@, body.latency) ELSE @,
        !.errors = IF "errors" \in DOMAIN body THEN Merge(@, body.errors) ELSE @,
        !.auth = IF "auth" \in DOMAIN body THEN Merge(@, body.auth) ELSE @]

MaxServed == 2

ApiKey == "test-api-key"
ProvidedKeys == {"", "wrong-key", ApiKey}
ServerPaths == HealthRoutes \cup {RecordsPath}
\* the Math.random() results of one request: two for the latency sampler,
\* the gate and the selection of the error injection
ServerDraws ==
    {<<u1, u1, gate, select>> :
        u1 \in {Random(Fin(1, 2), Fin(-1, 2), Whole(-1))},
        gate \in {Whole(0), Fin(19, 20)}, select \in {Whole(0), Fin(7, 10)}}
\* the server's middleware as constructed from the loaded configuration
StartupServers ==
    {[latency |-> [enabled |-> l, minMs |-> 100, maxMs |-> 500, distribution |-> "uniform",
                   applyToRoutes |-> <<>>, excludeRoutes |-> <<HealthPath, MetricsPath>>],
      errors |-> ErrorInjectionConfig(e, Fin(1, 2), getDefaultErrorTypes, <<>>,
                                      <<HealthPath, MetricsPath>>),
      auth |-> AuthConfig(a, ApiKey, "X-API-Key")] :
        l \in BOOLEAN, e \in BOOLEAN, a \in BOOLEAN}
\* bodies of POST /api/config/middleware
MiddlewareUpdates ==
    {[latency |-> [enabled |-> TRUE]],
     [latency |-> [minMs |-> 0, maxMs |-> 100, distribution |-> "exponential"]],
     [errors |-> [enabled |-> TRUE, errorRate |-> Whole(1)]],
     [errors |-> [errorRate |-> Whole(0)]],
     [auth |-> [enabled |-> TRUE]],
     [latency |-> [enabled |-> FALSE], errors |-> [enabled |-> FALSE]]}
NoUpdate == [none |-> TRUE]

InitServer ==
    /\ clock = ClockStart
    /\ state = NoState
    /\ currentSeed = 0
    /\ calls = 0
    /\ last = NoCall
    /\ prev = NoCall
    /\ twin = IdleTwin
    /\ pager = IdlePager
    /\ vcall = IdleValidate
    /\ requests = NoRequests
    /\ latency = IdleLatency
    /\ injection = IdleInjection
    /\ client = IdleClient
    /\ \E srv \in StartupServers :
         server = [phase |-> "listening", config |-> srv, before |-> srv,
                   update |-> NoUpdate, handled |-> 0, path |-> <<>>, providedKey |-> "",
                   draws |-> <<>>, outcome |-> NoOutcome]

\* a GET request to one of the routes
ServeRequest(path, providedKey, draws) ==
    /\ server.phase # "idle"
    /\ server.handled < MaxServed
    /\ server' = [server EXCEPT !.phase = "answered", !.handled = @ + 1, !.path = path,
                                !.providedKey = providedKey, !.draws = draws,
                                !.outcome = throughMiddleware(server.config, path,
                                                              providedKey, draws)]
    /\ UNCHANGED <<state, currentSeed, clock, calls, last, prev, twin, pager, vcall,
                   requests, latency, injection, client>>

ConfigPath == Api \o <<"c", "o", "n", "f", "i", "g", "/", "m", "i", "d", "d", "l", "e",
                       "w", "a", "r", "e">>

\* POST /api/config/middleware: the update is applied when the request
\* reaches the route
PostMiddlewareConfig(body, providedKey, draws) ==
    /\ server.phase # "idle"
    /\ server.handled < MaxServed
    /\ LET Route(outcome) ==
               server' = IF outcome.stage # "route"
                         THEN [server EXCEPT !.phase = "refused", !.handled = @ + 1,
                                             !.path = ConfigPath,
                                             !.providedKey = providedKey,
                                             !.draws = draws, !.outcome = outcome]
                         ELSE [server EXCEPT !.phase = "updated", !.handled = @ + 1,
                                             !.path = ConfigPath,
                                             !.providedKey = providedKey,
                                             !.draws = draws, !.outcome = outcome,
                                             !.before = server.config, !.update = body,
                                             !.config = updateMiddlewareConfig(@, body)]
       IN  Route(throughMiddleware(server.config, ConfigPath, providedKey, draws))
    /\ UNCHANGED <<state, currentSeed, clock, calls, last, prev, twin, pager, vcall,
                   requests, latency, injection, client>>

NextServer ==
    \/ \E path \in ServerPaths, providedKey \in ProvidedKeys, draws \in ServerDraws :
         ServeRequest(path, providedKey, draws)
    \/ \E body \in MiddlewareUpdates, providedKey \in ProvidedKeys, draws \in ServerDraws :
         PostMiddlewareConfig(body, providedKey, draws)

SpecServer == InitServer /\ [][NextServer]_vars

----------------------------------------------------------------------------
(* Two seeded generators created from the same seed, each drawn from on its *)
(* own: currentSeed is the first closure's variable, twin.cs the second's   *)

MaxDraws == 3
PrngSeeds == -20..20

InitPrng ==
    /\ clock = ClockStart
    /\ state = NoState
    /\ calls = 0
    /\ last = NoCall
    /\ prev = NoCall
    /\ pager = IdlePager
    /\ vcall = IdleValidate
    /\ requests = NoRequests
    /\ latency = IdleLatency
    /\ injection = IdleInjection
    /\ server = IdleServer
    /\ client = IdleClient
    /\ \E seed \in PrngSeeds :
         /\ currentSeed = createSeededRandom(seed)
         /\ twin = [phase |-> "stream", seed |-> seed, cs |-> createSeededRandom(seed),
                    draws |-> 0]

\* seededRandom() on the first generator
DrawFirst ==
    /\ twin.phase = "stream"
    /\ calls < MaxDraws
    /\ currentSeed' = SeededNext(currentSeed)
    /\ calls' = calls + 1
    /\ UNCHANGED <<state, clock, last, prev, twin, pager, vcall, requests, latency,
                   injection, server, client>>

\* seededRandom() on the second generator
DrawSecond ==
    /\ twin.phase = "stream"
    /\ twin.draws < MaxDraws
    /\ twin' = [twin EXCEPT !.cs = SeededNext(@), !.draws = @ + 1]
    /\ UNCHANGED <<state, currentSeed, clock, calls, last, prev, pager, vcall, requests,
                   latency, injection, server, client>>

NextPrng == DrawFirst \/ DrawSecond

SpecPrng == InitPrng /\ [][NextPrng]_vars

----------------------------------------------------------------------------
(* generateFieldValue on its own: one field definition, the generator in    *)
(* some state, one call                                                     *)

FieldSeed == 42
\* field definitions with and without default, required true, false and absent
FieldInputs ==
    {FieldDef(type, required, default, constraints) :
        type \in {"boolean", "uuid", "invalid_type"},
        required \in {Undefined, True, False, Null},
        default \in {Undefined, True, Null, Active},
        constraints \in {NoConstraints}}
      \cup {FieldDef("enum", required, default, EnumOf(<<Active, Inactive>>)) :
              required \in {Undefined, False}, default \in {Undefined, Inactive}}
      \cup {FieldDef("number", required, default, MinMax(Num(1), Num(5))) :
              required \in {True, False}, default \in {Undefined, Num(0)}}
\* states of the generator before the call: the next draw is below 0.1 from
\* 20, 21, 22 and 45, and not from the others
FieldStates == {0, 7, 19, 20, 21, 22, 23, 45, 999}

InitField ==
    /\ clock = ClockStart
    /\ state = NoState
    /\ calls = 0
    /\ prev = NoCall
    /\ twin = IdleTwin
    /\ pager = IdlePager
    /\ vcall = IdleValidate
    /\ requests = NoRequests
    /\ latency = IdleLatency
    /\ injection = IdleInjection
    /\ server = IdleServer
    /\ client = IdleClient
    /\ \E cs \in FieldStates : currentSeed = cs
    /\ \E fieldDef \in FieldInputs, index \in 0..1 :
         last = [op |-> "pending", fieldDef |-> fieldDef, index |-> index,
                 preSeed |-> currentSeed, result |-> Ret(Undefined, currentSeed)]

\* this.generateFieldValue(fieldDef, index)
GenerateFieldValue ==
    /\ last.op = "pending"
    /\ LET Respond(r) ==
               /\ currentSeed' = r.cs
               /\ last' = [last EXCEPT !.op = "generateFieldValue", !.result = r]
       IN  Respond(generateFieldValue(last.fieldDef, last.index, currentSeed, FieldSeed,
                                      clock))
    /\ calls' = calls + 1
    /\ UNCHANGED <<state, clock, prev, twin, pager, vcall, requests, latency, injection,
                   server, client>>

NextField == GenerateFieldValue

SpecField == InitField /\ [][NextField]_vars

----------------------------------------------------------------------------
(* Two identically seeded engines: the first is read in pages of a fixed    *)
(* size from offset 0, the second in one batch covering the same indices    *)

MaxPages == 2

\* the seeds a reset supplies to both engines
ReseedConfigs == {PartialConfig(Undefined, Num(0)), PartialConfig(Undefined, Num(999))}

InitBatchSize ==
    /\ clock = ClockStart
    /\ \E config \in ConstructorConfigs :
         /\ state = constructState(config, clock)
         /\ currentSeed = createSeededRandom(state.seed)
         /\ twin = [phase |-> "constructed", config |-> config, state |-> state,
                    currentSeed |-> createSeededRandom(state.seed), last |-> NoCall]
    /\ \E limit \in PageLimits :
         pager = [phase |-> "paging", limit |-> limit, offset |-> 0, pages |-> 0,
                  records |-> <<>>]
    /\ calls = 0
    /\ last = NoCall
    /\ prev = NoCall
    /\ vcall = IdleValidate
    /\ requests = NoRequests
    /\ latency = IdleLatency
    /\ injection = IdleInjection
    /\ server = IdleServer
    /\ client = IdleClient

\* generator.reset({ seed }) on both engines, before anything is generated
ReseedBoth(config) ==
    /\ calls = 0
    /\ pager.pages = 0
    /\ twin.phase = "constructed"
    /\ state' = resetState(state, config)
    /\ currentSeed' = resetRandom(currentSeed, config)
    /\ twin' = [twin EXCEPT !.state = resetState(@, config),
                            !.currentSeed = resetRandom(@, config)]
    /\ last' = Call("reset", 0, 0, config, state, currentSeed, NoResult, NoState)
    /\ calls' = calls + 1
    /\ UNCHANGED <<clock, prev, pager, vcall, requests, latency, injection, server, client>>

\* the next page of the first engine: generateBatch(offset, k), then offset + k
NextPage ==
    /\ pager.phase = "paging"
    /\ pager.pages < MaxPages
    /\ twin.phase = "constructed"
    /\ LET Respond(r) ==
               /\ currentSeed' = r.cs
               /\ pager' = IF r.threw
                           THEN [pager EXCEPT !.phase = "threw", !.pages = @ + 1]
                           ELSE [pager EXCEPT !.offset = @ + pager.limit,
                                              !.pages = @ + 1,
                                              !.records = @ \o r.records]
       IN  Respond(generateBatch(state, currentSeed, pager.offset, pager.limit, clock))
    /\ UNCHANGED <<state, clock, calls, last, prev, twin, vcall, requests,
                   latency, injection, server, client>>

\* the second engine in one batch: generateBatch(0, n), n the indices paged
SingleBatch ==
    /\ twin.phase = "constructed"
    /\ pager.pages >= 1
    /\ LET Respond(r) ==
               twin' = [twin EXCEPT !.phase = "called", !.currentSeed = r.cs,
                                    !.last = Call("generateBatch", 0, pager.offset,
                                                  PartialConfig(Undefined, Undefined),
                                                  twin.state, twin.currentSeed, r, NoState)]
       IN  Respond(generateBatch(twin.state, twin.currentSeed, 0, pager.offset, clock))
    /\ UNCHANGED <<state, currentSeed, clock, calls, last, prev, pager, vcall,
                   requests, latency, injection, server, client>>

\* time passes between two calls
BatchSizeTick ==
    /\ twin.phase = "constructed"
    /\ clock < ClockStart + MaxClock
    /\ clock' = clock + 1
    /\ UNCHANGED <<state, currentSeed, calls, last, prev, twin, pager, vcall,
                   requests, latency, injection, server, client>>

NextBatchSize ==
    \/ \E config \in ReseedConfigs : ReseedBoth(config)
    \/ NextPage
    \/ SingleBatch
    \/ BatchSizeTick

SpecBatchSize == InitBatchSize /\ [][NextBatchSize]_vars

----------------------------------------------------------------------------
(* TestApiClient: one request and its retries.  The client is an axios      *)
(* instance; axios runs the request interceptors on every request the       *)
(* instance sends, the one sent by this.client(config) in the retry         *)
(* included, and rejects a response whose status validateStatus refuses.    *)

MaxAttempts == 5
DefaultRetries == 3
DefaultRetryDelay == 1000
DefaultValidateBelow == 500

RECURSIVE Pow2(_)
Pow2(n) == IF n <= 0 THEN 1 ELSE 2 * Pow2(n - 1)

\* the client's configuration; validateStatus is status < validateBelow
ApiClientConfig(retries, retryDelay, validateBelow) ==
    [retries |-> retries, retryDelay |-> retryDelay, validateBelow |-> validateBelow]
ClientConfigs ==
    {ApiClientConfig(retries, DefaultRetryDelay, validateBelow) :
        retries \in {0, 1, DefaultRetries}, validateBelow \in {DefaultValidateBelow, 400}}

\* what comes back: 0 for no response (a network error), or the status
NetworkError == 0
Statuses == {NetworkError, 200, 404, 429, 500, 503}

\* the request interceptor: fresh metadata on the request's configuration
requestInterceptor == [retryCount |-> 0]

\* shouldRetry(error)
shouldRetry(status) == status = NetworkError \/ status >= 500 \/ status = 429

\* this.config.retries || 0
RetriesOrZero(config) == config.retries

InitClient ==
    /\ clock = ClockStart
    /\ state = NoState
    /\ currentSeed = 0
    /\ calls = 0
    /\ last = NoCall
    /\ prev = NoCall
    /\ twin = IdleTwin
    /\ pager = IdlePager
    /\ vcall = IdleValidate
    /\ requests = NoRequests
    /\ latency = IdleLatency
    /\ injection = IdleInjection
    /\ server = IdleServer
    /\ \E config \in ClientConfigs :
         client = [phase |-> "ready", config |-> config, metadata |-> requestInterceptor,
                   attempts |-> 0, delays |-> <<>>, status |-> NetworkError]

\* this.client.get(...): the request interceptor, then the request is sent
SendRequest ==
    /\ client.phase = "ready"
    /\ client' = [client EXCEPT !.phase = "sent", !.metadata = requestInterceptor,
                                !.attempts = @ + 1]
    /\ UNCHANGED <<state, currentSeed, clock, calls, last, prev, twin, pager, vcall,
                   requests, latency, injection, server>>

\* the response interceptor on the outcome of the request: resolve, reject,
\* or count a retry and wait
Receive(status) ==
    /\ client.phase = "sent"
    /\ client' =
         IF status # NetworkError /\ status < client.config.validateBelow
         THEN [client EXCEPT !.phase = "resolved", !.status = status]
         ELSE IF shouldRetry(status) /\ client.metadata.retryCount < RetriesOrZero(client.config)
         THEN [client EXCEPT
                  !.phase = "waiting", !.status = status,
                  !.metadata.retryCount = @ + 1,
                  !.delays = Append(@, client.config.retryDelay
                                         * Pow2(client.metadata.retryCount + 1 - 1))]
         ELSE [client EXCEPT !.phase = "rejected", !.status = status]
    /\ UNCHANGED <<state, currentSeed, clock, calls, last, prev, twin, pager, vcall,
                   requests, latency, injection, server>>

\* after the delay: return this.client(config), a request of the instance,
\* so the request interceptor runs on its configuration
Retry ==
    /\ client.phase = "waiting"
    /\ client.attempts < MaxAttempts
    /\ client' = [client EXCEPT !.phase = "sent", !.metadata = requestInterceptor,
                                !.attempts = @ + 1]
    /\ UNCHANGED <<state, currentSeed, clock, calls, last, prev, twin, pager, vcall,
                   requests, latency, injection, server>>

NextClient ==
    \/ SendRequest
    \/ \E status \in Statuses : Receive(status)
    \/ Retry

SpecClient == InitClient /\ [][NextClient]_vars

----------------------------------------------------------------------------
(* Properties *)

Returned(call) == call.op = "generateBatch" /\ ~call.result.threw
\* the call returned a record for position i / that record
Covers(call, i) == Returned(call) /\ (i - call.offset + 1) \in 1..Len(call.result.records)
RecordAt(call, i) == call.result.records[i - call.offset + 1]
\* what the caller of generateBatch sees
Visible(result) ==
    [threw |-> result.threw, records |-> result.records, hasMore |-> result.hasMore,
     nextOffset |-> result.nextOffset, totalCount |-> result.totalCount]
HasIdField(schema) == "id" \in FieldNames(schema)

\* C1: on one engine with a fixed seed and schema, the record returned for
\* position i is the same on every call, whatever was called before: two
\* consecutive generateBatch calls agree on every position both return.
C1_SamePositionSameRecord ==
    \A i \in Offsets :
        (Covers(prev, i) /\ Covers(last, i)) => RecordAt(last, i) = RecordAt(prev, i)

\* C2: for two fresh engines with the same seed and schema, generateBatch(i, 1)
\* on one returns the record that generateBatch(0, i + 1) on the other returns
\* at position i.
C2_RecordIndependentOfPredecessors ==
    (/\ calls = 1 /\ twin.phase = "called"
     /\ state.seed = twin.state.seed
     /\ last.offset >= 0 /\ last.limit = 1
     /\ twin.last.offset = 0 /\ twin.last.limit = last.offset + 1
     /\ Covers(last, last.offset) /\ Covers(twin.last, last.offset))
    => RecordAt(last, last.offset) = RecordAt(twin.last, last.offset)

\* C3: two engines constructed independently from one configuration with an
\* integer seed return the same result for generateBatch(i, 1), whenever they
\* are constructed and called.
C3_IndependentEnginesAgree ==
    (/\ calls = 1 /\ twin.phase = "called"
     /\ twin.config.seed.k = "number"
     /\ last.limit = 1 /\ twin.last.limit = 1
     /\ last.offset = twin.last.offset)
    => Visible(last.result) = Visible(twin.last.result)

\* C4: for a schema that validateSchema accepts, paging from offset 0 along
\* nextOffset until hasMore is false never throws and ends with exactly
\* totalRecords records whose ids are pairwise distinct.
C4_PaginationComplete ==
    validateSchema(ObjectValue(state.schema)).valid =>
        /\ pager.phase # "threw"
        /\ pager.phase = "done" =>
             /\ Len(pager.records) = state.totalRecords
             /\ \A a, b \in 1..Len(pager.records) :
                  a # b => pager.records[a].id # pager.records[b].id

\* the clamped end of the window of a generateBatch call
WindowEnd(call) == Min(call.offset + call.limit, call.pre.totalRecords)
WindowSize(call) ==
    IF WindowEnd(call) > call.offset THEN WindowEnd(call) - call.offset ELSE 0

\* C5: a generateBatch(offset, limit) that returns gives the records of
\* exactly the indices offset .. end - 1 in ascending order, with
\* end = min(offset + limit, totalRecords); hasMore holds iff end < totalRecords;
\* nextOffset is present iff hasMore and is then end; totalCount is
\* totalRecords.  A record is recognised by its id where the schema leaves
\* the id alone.
C5_BatchWindow ==
    Returned(last) =>
        /\ Len(last.result.records) = WindowSize(last)
        /\ ~HasIdField(last.pre.schema) =>
             \A j \in 1..Len(last.result.records) :
                 last.result.records[j].id
                     = generateDeterministicUuid(last.pre.seed + last.offset + j - 1)
        /\ last.result.hasMore <=> WindowEnd(last) < last.pre.totalRecords
        /\ (last.result.nextOffset # Undefined) <=> last.result.hasMore
        /\ last.result.hasMore => last.result.nextOffset = Str(ToDec(WindowEnd(last)))
        /\ last.result.totalCount = last.pre.totalRecords

\* generateBatch(0, 1) on an engine of two records: one record, more to come
C5_Witness ==
    /\ Returned(last)
    /\ ~HasIdField(last.pre.schema)
    /\ last.offset = 0 /\ last.limit = 1 /\ last.pre.totalRecords = 2
    /\ Len(last.result.records) = 1
    /\ last.result.hasMore
    /\ last.result.nextOffset = Str(<<"1">>)

\* C6: every generateBatch call with offset >= totalRecords, whatever its
\* limit, returns zero records and hasMore = false, and a
\* generateBatch(totalRecords - 1, N) with N >= 1 that returns gives exactly
\* one record.
C6_Boundary ==
    last.op = "generateBatch" =>
        /\ last.offset >= last.pre.totalRecords =>
             /\ ~last.result.threw
             /\ last.result.records = <<>>
             /\ ~last.result.hasMore
        /\ (last.offset = last.pre.totalRecords - 1 /\ last.limit >= 1 /\ Returned(last)) =>
             Len(last.result.records) = 1

\* C7: generateBatch never throws, whatever schema the engine holds.
C7_GenerateBatchNeverThrows ==
    last.op = "generateBatch" => ~last.result.threw

\* a field definition that breaks none of the four rules
DeclaresKnownType(def) ==
    def.type \in {"uuid", "string", "number", "boolean", "iso8601", "enum"}
CarriesEnumList(def) ==
    def.constraints.has /\ def.constraints.hasEnum /\ Len(def.constraints.enum) > 0
MinAboveMax(def) ==
    /\ def.constraints.has
    /\ def.constraints.min # Undefined /\ def.constraints.max # Undefined
    /\ def.constraints.min.k = def.constraints.max.k
    /\ \/ def.constraints.min.n > def.constraints.max.n
       \/ /\ def.constraints.min.n = def.constraints.max.n
          /\ def.constraints.min.f > def.constraints.max.f
NegativeLength(def) ==
    def.constraints.has /\ def.constraints.length # Undefined /\ def.constraints.length.n < 0
WellFormed(def) ==
    /\ DeclaresKnownType(def)
    /\ def.type = "enum" => CarriesEnumList(def)
    /\ ~MinAboveMax(def)
    /\ ~NegativeLength(def)
Offending(entries) == {entries[j].name : j \in {k \in 1..Len(entries) : ~WellFormed(entries[k].def)}}
Named(errors) == {errors[e].field : e \in 1..Len(errors)}

Corrupt(schema) ==
    \/ schema.kind # "object"
    \/ \E j \in 1..Len(schema.entries) : schema.entries[j].def.isNull

\* C9: validateSchema never throws, and for a corrupt or empty input it
\* returns valid = false with a non-empty error list.
C9_ValidateSchemaNeverThrows ==
    /\ vcall.phase # "threw"
    /\ (vcall.phase = "returned" /\ Corrupt(vcall.schema)) =>
           (~vcall.result.valid /\ vcall.result.errors # <<>>)

C11_ReseedEqualsFresh ==
    twin.phase = "paired" => Visible(last.result) = Visible(twin.last.result)

\* requests i and j were handled after a reset to a given seed, with no
\* reset or seed request handled since
AfterKnownSeed(i, j) ==
    /\ \E r \in Handled :
         /\ requests[r].req.route = "reset"
         /\ Truthy(requests[r].req.body.seed)
         /\ requests[r].order < requests[i].order
         /\ requests[r].order < requests[j].order
    /\ \A k \in Handled :
         requests[k].req.route # "records" =>
             (requests[k].order < requests[i].order /\ requests[k].order < requests[j].order)

\* C12: GET records requests for the same offset and limit that are in
\* flight together, after a reset to a known seed and with no reset in
\* between, all receive the same records, in whatever order they are handled.
C12_ConcurrentReadsAgree ==
    \A i, j \in Handled :
        (/\ requests[i].req.route = "records"
         /\ requests[j].req = requests[i].req
         /\ AfterKnownSeed(i, j))
        => requests[i].response.data = requests[j].response.data

HexChars == {HexDigits[d] : d \in 1..Len(HexDigits)}
\* five hyphen-separated groups of hex digits, of lengths 8, 4, 4, 4 and 12
UuidShaped(v) ==
    /\ v.k = "string"
    /\ Len(v.s) = 36
    /\ \A p \in 1..Len(v.s) :
         IF p \in {9, 14, 19, 24} THEN v.s[p] = "-" ELSE v.s[p] \in HexChars
\* the fields of a record that hold an identifier derived from (seed, index)
DerivedIdFields(schema) ==
    LET UuidFields == {schema[j].name : j \in {q \in 1..Len(schema) :
                                                  /\ schema[q].def.type = "uuid"
                                                  /\ schema[q].def.default.k = "undefined"}}
    IN  IF HasIdField(schema) THEN UuidFields ELSE UuidFields \cup {"id"}

\* C13: for a non-negative seed and index, the record id and every
\* uuid-typed field value of a generated record is a UUID-shaped string:
\* five hyphen-separated hex groups of lengths 8, 4, 4, 4 and 12.
C13_IdsUuidShaped ==
    (Returned(last) /\ last.pre.seed >= 0 /\ last.offset >= 0) =>
        \A r \in 1..Len(last.result.records) :
            \A name \in DerivedIdFields(last.pre.schema) :
                UuidShaped(last.result.records[r][name])

\* C14: every generated record carries the deterministic identifier of
\* (seed, index) as its id, whatever schema is configured, a schema that
\* declares a field named id included.
C14_IdIsDerivedFromSeedAndIndex ==
    Returned(last) =>
        \A r \in 1..Len(last.result.records) :
            last.result.records[r].id = generateId(last.pre.seed, last.offset + r - 1)

\* the schema entries of the given type
FieldsOfType(schema, type) == {j \in 1..Len(schema) : schema[j].def.type = type}
Members(list) == {list[e] : e \in 1..Len(list)}

\* C15: every value a returned record holds for an enum field is a member of
\* that field's declared enum list, for every seed, index and earlier calls.
C15_EnumValuesAreMembers ==
    Returned(last) =>
        \A r \in 1..Len(last.result.records) :
            \A j \in FieldsOfType(last.pre.schema, "enum") :
                last.result.records[r][last.pre.schema[j].name]
                    \in Members(last.pre.schema[j].def.constraints.enum)

\* min <= v <= max for the number v = v.n + v.f / Modulus
WithinRange(v, min, max) ==
    /\ v.k = "number"
    /\ v.n >= min
    /\ v.n < max \/ (v.n = max /\ v.f = 0)
NumberRanged(def) ==
    /\ def.type = "number" /\ def.default.k = "undefined"
    /\ def.constraints.has /\ IsNumber(def.constraints.min) /\ IsNumber(def.constraints.max)
    /\ def.constraints.min.n <= def.constraints.max.n

\* C16: every value generated for a number field with constraints
\* min <= max lies within [min, max] inclusive, for every seed and index,
\* with and without the integer format.
C16_NumbersWithinRange ==
    Returned(last) =>
        \A r \in 1..Len(last.result.records) :
            \A j \in FieldsOfType(last.pre.schema, "number") :
                NumberRanged(last.pre.schema[j].def) =>
                    WithinRange(last.result.records[r][last.pre.schema[j].name],
                                last.pre.schema[j].def.constraints.min.n,
                                last.pre.schema[j].def.constraints.max.n)

\* C17: for each distribution and any configuration with minMs <= maxMs,
\* every latency value the sampler produces lies within [minMs, maxMs], for
\* every possible random draw.
C17_LatencyWithinBounds ==
    (latency.phase = "next" /\ latency.delayed
        /\ latency.config.minMs <= latency.config.maxMs) =>
        /\ latency.latencyMs.k # "nan"
        /\ AtMost(Whole(latency.config.minMs), latency.latencyMs)
        /\ AtMost(latency.latencyMs, Whole(latency.config.maxMs))

\* C18: when an error is injected, the response carries exactly the
\* selected error type's configured statusCode and configured message, for
\* every error type.
C18_InjectedErrorAsConfigured ==
    injection.phase = "responded" =>
        /\ injection.response.statusCode = injection.selected.statusCode
        /\ injection.response.message = injection.selected.message

\* the query parameter is present and is not a decimal integer / is one
Unsigned(text) == IF text.s # <<>> /\ Head(text.s) = "-" THEN Tail(text.s) ELSE text.s
NonNumeric(text) ==
    text # Undefined /\ (Unsigned(text) = <<>> \/ LeadingDigits(Unsigned(text)) # Unsigned(text))
Numeric(text) == text # Undefined /\ ~NonNumeric(text)
\* offset or limit is non-numeric, negative, or limit is above the cap
InvalidPaging(query) ==
    \/ NonNumeric(query.offset) \/ NonNumeric(query.limit)
    \/ Numeric(query.offset) /\ parseInt(query.offset.s).n < 0
    \/ Numeric(query.limit) /\ parseInt(query.limit.s).n < 0
    \/ Numeric(query.limit) /\ parseInt(query.limit.s).n > LimitCap

\* C19: a GET records request whose offset or limit is non-numeric,
\* negative, or above the server-side cap is rejected with a 4xx response,
\* and generateBatch is not called for it.
C19_InvalidPagingRejected ==
    \A i \in Handled :
        (requests[i].req.route = "records" /\ InvalidPaging(requests[i].req.query)) =>
            /\ requests[i].response.code \in 400..499
            /\ ~requests[i].response.called

\* a schema was sent and validation does not accept it: validateSchema
\* reports errors for it or cannot process it
InvalidSchema(schema) ==
    schema.kind # "undefined" /\ (validateSchema(schema).threw \/ ~validateSchema(schema).valid)

\* C20: a seed request whose schema is invalid (a null schema and a null
\* field definition included) is answered with a 4xx carrying the
\* validation errors, never with a 2xx or a 5xx.
C20_InvalidSchemaRejected ==
    \A i \in Handled :
        (requests[i].req.route = "seed" /\ InvalidSchema(requests[i].req.body.schema)) =>
            /\ requests[i].response.code \in 400..499
            /\ requests[i].response.errors # <<>>

\* the setting `key` of middleware m as the last update request leaves it:
\* the value the update names, the previous value otherwise
Expected(m, key) ==
    IF m \in DOMAIN server.update /\ key \in DOMAIN server.update[m]
    THEN server.update[m][key]
    ELSE server.before[m][key]
Updated == "none" \notin DOMAIN server.update
\* the error injection answers exactly when it is enabled for the path, the
\* gate draw does not exceed errorRate and there is a type to select
ErrorsDecide(config, path, gate) ==
    /\ config.enabled /\ shouldApplyErrors(config, path)
    /\ AtMost(gate, config.errorRate)
    /\ TotalProbability(config.errorTypes, 1) # Whole(0)

\* C21: after a runtime update of the latency or error-injection
\* configuration, the settings the update names have the new values, the
\* others keep their previous values, and every later request is decided
\* under them, without a restart.
C21_UpdateTakesEffect ==
    Updated =>
        /\ \A m \in {"latency", "errors"} :
             /\ DOMAIN server.config[m] = DOMAIN server.before[m]
             /\ \A key \in DOMAIN server.before[m] : server.config[m][key] = Expected(m, key)
        /\ server.phase = "answered" =>
             /\ server.outcome.delayed =
                  (Expected("latency", "enabled")
                     /\ ~\E r \in 1..Len(Expected("latency", "excludeRoutes")) :
                           StartsWith(server.path, Expected("latency", "excludeRoutes")[r]))
             /\ server.outcome.delayed =>
                  /\ AtMost(Whole(Expected("latency", "minMs")), server.outcome.latencyMs)
                  /\ AtMost(server.outcome.latencyMs, Whole(Expected("latency", "maxMs")))
             /\ (server.outcome.stage = "errors") =
                  ErrorsDecide([key \in DOMAIN server.before.errors |-> Expected("errors", key)],
                               server.path, server.draws[3])
\* an update switched the latency injection on and changed its range, and
\* the next request was delayed within the new range
C21_Witness ==
    /\ Updated /\ server.phase = "answered"
    /\ "latency" \in DOMAIN server.update
    /\ ~server.before.latency.enabled
    /\ server.outcome.delayed
    /\ server.path = RecordsPath

\* C22: in every reachable engine state totalRecords is a non-negative
\* integer, whatever construction, reset requests, seed requests and
\* generateBatch calls came before.
C22_TotalRecordsNonNegative == state.totalRecords >= 0

\* C23: a generateBatch call changes neither seed, schema, totalRecords nor
\* any other state that influences the output of later generateBatch calls
\* (the state of the seeded generator included); only the counters
\* currentOffset and generatedCount may change.
C23_GenerateBatchReadOnly ==
    last.op = "generateBatch" =>
        /\ state.seed = last.pre.seed
        /\ state.schema = last.pre.schema
        /\ state.totalRecords = last.pre.totalRecords
        /\ currentSeed = last.preSeed

\* C24: for every integer seed the seeded generator yields only values in
\* [0, 1) (currentSeed / Modulus after a draw), and two generators created
\* from the same seed have produced the same value after the same number of
\* draws.
C24_DrawsInUnitInterval ==
    /\ calls > 0 => (currentSeed >= 0 /\ currentSeed < Modulus)
    /\ (twin.phase = "stream" /\ twin.draws = calls) => twin.cs = currentSeed

HasDefault(fieldDef) == fieldDef.default # Undefined
\* required, with the default true of the destructuring
IsRequired(fieldDef) == fieldDef.required = Undefined \/ Truthy(fieldDef.required)
\* the coin flip: the next draw of the generator, below 0.1 or not
Coin(cs) == SeededNext(cs)
CoinSucceeds(cs) == Coin(cs) * 10 < Modulus
Synthesized(call, cs) == SynthesizeByType(call.fieldDef, call.index, cs, FieldSeed, clock)

RECURSIVE Weight(_, _)
Weight(errorTypes, j) ==
    IF j = 0 THEN Whole(0) ELSE Plus(Weight(errorTypes, j - 1), errorTypes[j].probability)
\* the entries at which the running value draw - (sum of the weights so
\* far) is non-positive
Exhausted(errorTypes, draw) ==
    {j \in 1..Len(errorTypes) : AtMost(Minus(draw, Weight(errorTypes, j)), Whole(0))}
First(indices) == CHOOSE j \in indices : \A other \in indices : j <= other
\* the middleware is enabled and applies to the request's path
Applies(config, request) == config.enabled /\ shouldApplyErrors(config, request.path)
TotalWeight(config) == Weight(config.errorTypes, Len(config.errorTypes))
ScaledPick(config, request) == Times(request.pick, TotalWeight(config))

\* C26: for a request the error injection applies to, no error is injected
\* when the gate draw exceeds errorRate; otherwise the selected type is the
\* first one at which subtracting the weights, in list order, from the draw
\* scaled to [0, totalWeight) leaves a non-positive value; with a total
\* weight of 0 (an empty list included) nothing is selected and the request
\* proceeds to the next handler.
C26_ErrorSelection ==
    (injection.phase \in {"next", "responded"}
        /\ Applies(injection.config, injection.request)) =>
        IF ~AtMost(injection.request.gate, injection.config.errorRate)
              \/ TotalWeight(injection.config) = Whole(0)
        THEN injection.phase = "next" /\ ~injection.response.sent
        ELSE /\ injection.phase = "responded"
             /\ Exhausted(injection.config.errorTypes,
                          ScaledPick(injection.config, injection.request)) # {}
             /\ injection.selected =
                  injection.config.errorTypes[
                      First(Exhausted(injection.config.errorTypes,
                                      ScaledPick(injection.config, injection.request)))]
\* a type other than the first of the list was selected
C26_Witness ==
    /\ injection.phase = "responded"
    /\ Applies(injection.config, injection.request)
    /\ injection.selected.type = "bad_request"
    /\ injection.selected # injection.config.errorTypes[1]

\* C27: whenever generateBatch(offset, limit) returns hasMore = true, the
\* returned nextOffset is strictly greater than the requested offset, for
\* every limit, zero and negative ones included.
C27_NextOffsetAdvances ==
    (Returned(last) /\ last.result.hasMore) =>
        /\ IsString(last.result.nextOffset)
        /\ ParseInt(last.result.nextOffset.s) > last.offset

\* C28: a request is attempted at most config.retries + 1 times, and the
\* wait before the n-th retry is retryDelay * 2^(n-1).
C28_RetriesBounded ==
    client.phase # "idle" =>
        /\ client.attempts <= client.config.retries + 1
        /\ \A n \in 1..Len(client.delays) :
             client.delays[n] = client.config.retryDelay * Pow2(n - 1)

\* C29: the pages of size k read from offset 0 on one engine, concatenated,
\* are the records of one generateBatch(0, n) on an identically seeded
\* engine, n the number of indices the pages cover.
C29_BatchSizeIndependent ==
    (twin.phase = "called" /\ pager.phase = "paging" /\ ~twin.last.result.threw) =>
        pager.records = twin.last.result.records

\* C30: a request to one of the health check routes is never answered 401
\* by the auth middleware, whatever key it carries and whether or not
\* authentication is enabled.
C30_HealthRoutesOpen ==
    (server.phase = "answered" /\ server.path \in HealthRoutes) =>
        ~(server.outcome.stage = "auth" /\ server.outcome.status = 401)

====
